---- MODULE Spec2Model ----
(***************************************************************************)
(* create-go-api: the interactive configuration wizard                     *)
(* (internal/tui/main.go, internal/tui/forms.go) as a state machine.       *)
(*                                                                         *)
(* The wizard is a bubbletea program: one event loop calls Model.Update    *)
(* for every key, timer tick and task completion message; a command        *)
(* returned by Update runs in its own goroutine and posts its result as a  *)
(* message.  The closure built by Model.generate holds the *Model pointer  *)
(* and reads (and writes) its fields when the goroutine runs.              *)
(*                                                                         *)
(* Strings are sequences of tokens; the empty string is << >>.             *)
(***************************************************************************)
EXTENDS Integers, Sequences, FiniteSets, Bags, TLC

\* ------------------------------------------------------------------ bounds

\* Number of editing key events (a rune typed, a deletion) of one run.
MaxEdits == 2
\* Number of back (Esc) key events of one run that move the step.
MaxBack == 2
\* Number of generation runs launched by one wizard instance.
MaxRuns == 2
\* Length, in tokens, of the content of a source file.
MaxContent == 4
\* tokens of an input of the region mapper
MaxRegion == 2

\* ------------------------------------------------------- program constants

StepWelcome == 0
StepProjectName == 1
StepModulePath == 2
StepOutputDir == 3
StepDatabaseSelection == 4
StepAWSProfileSelection == 5
StepAWSAccessKeyID == 6
StepAWSSecretKey == 7
StepAWSRegion == 8
StepFrameworkSelection == 9
StepDeploySelection == 10
StepReview == 11
StepGenerating == 12
StepComplete == 13

Steps == StepWelcome .. StepComplete

TextSteps ==
  {StepProjectName, StepModulePath, StepOutputDir,
   StepAWSAccessKeyID, StepAWSSecretKey, StepAWSRegion}

AWSSteps ==
  {StepAWSProfileSelection, StepAWSAccessKeyID, StepAWSSecretKey, StepAWSRegion}

\* textinput.Model.CharLimit set by newTextInputWithSensitivity.
CharLimit == 200

databaseOptions == <<"DynamoDB", "PostgreSQL">>
frameworkOptions == <<"ConnectRPC", "Chi">>
\* "default" first, then the other profiles loadAWSProfiles found.
awsProfileOptions == <<"default", "work">>

DatabaseTypePostgres == "postgres"
DatabaseTypeDynamoDB == "dynamodb"
FrameworkTypeChi == "chi"
FrameworkTypeConnectRPC == "connectrpc"

\* The literals Update compares the buffers with at StepProjectName.
DefaultOutputDir == <<"./", "postservice">>
DefaultModulePath == <<"github.com/user/", "postservice">>

\* error values: nil is the empty text
NilErr == << >>
ErrGenerate == <<"failed to write file">>
ErrToolNotFound == <<"flyctl", "or", "fly", "command not found">>
ErrDeployFailed == <<"deployment", "failed">>

Contains(text, token) == \E i \in DOMAIN text : text[i] = token

\* ------------------------------------------------------------ the inputs

\* Text a key event inserts into a text field: the rune "a", typed, and the
\* runes "postservice", pasted as one key event.
TypedRunes == {"a"}
Alphabet == TypedRunes \cup {"postservice"}
\* Keys the user sends.  Runes outside Alphabet ("y", "n", " ") are sent at
\* the steps that are not text fields.
Keys ==
  {"enter", "esc", "ctrl+c", "q", "up", "down", " ", "backspace", "ctrl+u",
   "y", "n"} \cup Alphabet

EditKeys == {"backspace", "ctrl+u"} \cup Alphabet

\* Results of loadAWSCredentialsFromProfile: all empty on any failure,
\* otherwise the profile's credentials and a non-empty region.
CredentialLookups ==
  { [accessKeyID |-> << >>, secretKey |-> << >>, region |-> << >>],
    [accessKeyID |-> <<"AKIA">>, secretKey |-> <<"s3cr3t">>,
     region |-> <<"us-east-1">>] }

VARIABLES
  m,              \* the Model struct
  running,        \* FALSE once tea.Quit was returned
  genTasks,       \* bag: goroutines running the closure of Model.generate
  deployTasks,    \* bag: goroutines running the closure of Model.deploy
  msgs,           \* bag: completion messages posted, not yet processed
  ticking,        \* a spinner.TickMsg is pending
  backs,          \* history: back key events that moved the step
  edits,          \* history: editing key events
  trail,          \* history: steps visited while no back was pressed
  enteredFrom,    \* history: step |-> step it was last entered from by a confirm
  genLaunched,    \* history: generation tasks launched
  deployLaunched, \* history: deployment tasks launched
  gen,            \* a run of Generator.Generate
  sub,            \* a run of the placeholder substitution on one content
  reg,            \* a call of awsRegionToFlyRegion
  dep,            \* a run of the closure of Model.deploy, step by step
  cli             \* a run of the create command

\* the variables of the wizard
wizardVars ==
  <<m, running, genTasks, deployTasks, msgs, ticking,
    backs, edits, trail, enteredFrom, genLaunched, deployLaunched>>

vars == <<wizardVars, gen, sub, reg, dep, cli>>

\* No Generator has been constructed.
NoGenerator == [phase |-> "none"]

\* No content is being substituted.
NoSubstitution == [phase |-> "none"]

\* awsRegionToFlyRegion is not being called.
NoRegionCall == [phase |-> "none"]

\* No closure of Model.deploy is followed step by step.
NoDeployCall == [phase |-> "none"]

\* The create command is not being run.
NoCreateCommand == [phase |-> "none"]

\* ------------------------------------------------------------- forms.go

\* newTextInputWithSensitivity: the second argument is the placeholder
\* shown in an empty field; the value starts empty.
newTextInput(placeholder) == << >>

\* textInputModel.Update: the bubbles text input inserts a rune at the
\* cursor (kept at the end), deletes the rune before it on backspace and
\* all of them on ctrl+u, and ignores the other keys modelled here; then
\* value is read back from it.
textInputUpdate(value, k) ==
  IF k \in Alphabet /\ Len(value) < CharLimit
    THEN Append(value, k)
  ELSE IF k = "backspace" /\ Len(value) > 0
    THEN SubSeq(value, 1, Len(value) - 1)
  ELSE IF k = "ctrl+u" THEN << >>
  ELSE value

newSingleSelect(options) == [cursor |-> 0, selected |-> 0]

singleSelectUpdate(sel, options, k) ==
  CASE k \in {"up", "k"} ->
         IF sel.cursor > 0 THEN [sel EXCEPT !.cursor = @ - 1] ELSE sel
    [] k \in {"down", "j"} ->
         IF sel.cursor < Len(options) - 1
           THEN [sel EXCEPT !.cursor = @ + 1] ELSE sel
    [] k \in {" ", "enter"} -> [sel EXCEPT !.selected = sel.cursor]
    [] OTHER -> sel

GetSelected(sel, values) ==
  IF sel.selected >= 0 /\ sel.selected < Len(values)
    THEN values[sel.selected + 1] ELSE ""

newConfirmWithDefault(defaultYes) == IF defaultYes THEN "yes" ELSE "no"

confirmUpdate(choice, k) ==
  CASE k \in {"y", "Y"} -> "yes"
    [] k \in {"n", "N"} -> "no"
    [] OTHER -> choice

GetChoice(choice) == choice = "yes"

\* -------------------------------------------------------------- main.go

NewModel ==
  [ step |-> StepWelcome,
    projectName |-> newTextInput("postservice"),
    modulePath |-> newTextInput("github.com/user/postservice"),
    outputDir |-> newTextInput("./postservice"),
    databaseSelect |-> newSingleSelect(databaseOptions),
    awsProfileSelect |-> newSingleSelect(awsProfileOptions),
    awsAccessKeyID |-> newTextInput(""),
    awsSecretKey |-> newTextInput(""),
    awsRegion |-> newTextInput("us-east-1"),
    awsProfileName |-> "",
    frameworkSelect |-> newSingleSelect(frameworkOptions),
    deployConfirm |-> newConfirmWithDefault(FALSE),
    err |-> NilErr,
    generating |-> FALSE,
    deploying |-> FALSE,
    deployEnabled |-> FALSE ]

\* What Update returns: the model and the command.
Ret(model, cmd) == [m |-> model, cmd |-> cmd]

UpdateWelcome(m1, k) ==
  Ret(IF k = "enter" THEN [m1 EXCEPT !.step = StepProjectName] ELSE m1, "nil")

UpdateProjectName_AlwaysDerives(m1, k) ==
  LET v == textInputUpdate(m1.projectName, k)
      m2 == [m1 EXCEPT !.projectName = v]
  IN IF k = "enter" /\ v # << >>
       THEN Ret([m2 EXCEPT !.outputDir = <<"./">> \o v,
                           !.modulePath = <<"github.com/user/">> \o v,
                           !.step = StepModulePath], "nil")
       ELSE Ret(m2, "nil")

UpdateProjectName(m1, k) ==
  LET v == textInputUpdate(m1.projectName, k)
      m2 == [m1 EXCEPT !.projectName = v]
  IN IF k = "enter" /\ v # << >>
       THEN Ret([m2 EXCEPT
                   !.outputDir =
                     IF m2.outputDir = << >> \/ m2.outputDir = DefaultOutputDir
                       THEN <<"./">> \o v ELSE @,
                   !.modulePath =
                     IF m2.modulePath = << >> \/ m2.modulePath = DefaultModulePath
                       THEN <<"github.com/user/">> \o v ELSE @,
                   !.step = StepModulePath], "nil")
       ELSE Ret(m2, "nil")

UpdateModulePath_NoCheck(m1, k) ==
  LET v == textInputUpdate(m1.modulePath, k)
      m2 == [m1 EXCEPT !.modulePath = v]
  IN IF k = "enter"
       THEN Ret([m2 EXCEPT !.step = StepOutputDir], "nil")
       ELSE Ret(m2, "nil")

UpdateModulePath(m1, k) ==
  LET v == textInputUpdate(m1.modulePath, k)
      m2 == [m1 EXCEPT !.modulePath = v]
  IN IF k = "enter" /\ v # << >>
       THEN Ret([m2 EXCEPT !.step = StepOutputDir], "nil")
       ELSE Ret(m2, "nil")

UpdateOutputDir(m1, k) ==
  LET v == textInputUpdate(m1.outputDir, k)
      m2 == [m1 EXCEPT !.outputDir = v]
  IN IF k = "enter" /\ v # << >>
       THEN Ret([m2 EXCEPT !.step = StepDatabaseSelection], "nil")
       ELSE Ret(m2, "nil")

UpdateDatabaseSelection_NoBranch(m1, k) ==
  LET s == singleSelectUpdate(m1.databaseSelect, databaseOptions, k)
      m2 == [m1 EXCEPT !.databaseSelect = s]
  IN IF k = "enter" /\ GetSelected(s, databaseOptions) # ""
       THEN Ret([m2 EXCEPT !.step = StepAWSProfileSelection], "nil")
       ELSE Ret(m2, "nil")

UpdateDatabaseSelection(m1, k) ==
  LET s == singleSelectUpdate(m1.databaseSelect, databaseOptions, k)
      m2 == [m1 EXCEPT !.databaseSelect = s]
  IN IF k = "enter" /\ GetSelected(s, databaseOptions) # ""
       THEN IF GetSelected(s, databaseOptions) = "DynamoDB"
              THEN Ret([m2 EXCEPT !.step = StepAWSProfileSelection], "nil")
              ELSE Ret([m2 EXCEPT !.step = StepFrameworkSelection], "nil")
       ELSE Ret(m2, "nil")

UpdateAWSProfileSelection_Overwrites(m1, k, creds) ==
  LET s == singleSelectUpdate(m1.awsProfileSelect, awsProfileOptions, k)
      m2 == [m1 EXCEPT !.awsProfileSelect = s]
  IN IF k = "enter" /\ GetSelected(s, awsProfileOptions) # ""
       THEN Ret([m2 EXCEPT
                   !.awsProfileName = GetSelected(s, awsProfileOptions),
                   !.awsAccessKeyID = creds.accessKeyID,
                   !.awsSecretKey = creds.secretKey,
                   !.awsRegion = creds.region,
                   !.step = StepAWSAccessKeyID], "nil")
       ELSE Ret(m2, "nil")

UpdateAWSProfileSelection(m1, k, creds) ==
  LET s == singleSelectUpdate(m1.awsProfileSelect, awsProfileOptions, k)
      m2 == [m1 EXCEPT !.awsProfileSelect = s]
  IN IF k = "enter" /\ GetSelected(s, awsProfileOptions) # ""
       THEN Ret([m2 EXCEPT
                   !.awsProfileName = GetSelected(s, awsProfileOptions),
                   !.awsAccessKeyID =
                     IF creds.accessKeyID # << >> THEN creds.accessKeyID ELSE @,
                   !.awsSecretKey =
                     IF creds.secretKey # << >> THEN creds.secretKey ELSE @,
                   !.awsRegion =
                     IF creds.region # << >> THEN creds.region ELSE @,
                   !.step = StepAWSAccessKeyID], "nil")
       ELSE Ret(m2, "nil")

UpdateAWSAccessKeyID(m1, k) ==
  LET v == textInputUpdate(m1.awsAccessKeyID, k)
      m2 == [m1 EXCEPT !.awsAccessKeyID = v]
  IN IF k = "enter" /\ v # << >>
       THEN Ret([m2 EXCEPT !.step = StepAWSSecretKey], "nil")
       ELSE Ret(m2, "nil")

UpdateAWSSecretKey(m1, k) ==
  LET v == textInputUpdate(m1.awsSecretKey, k)
      m2 == [m1 EXCEPT !.awsSecretKey = v]
  IN IF k = "enter" /\ v # << >>
       THEN Ret([m2 EXCEPT !.step = StepAWSRegion], "nil")
       ELSE Ret(m2, "nil")

UpdateAWSRegion(m1, k) ==
  LET v == textInputUpdate(m1.awsRegion, k)
      m2 == [m1 EXCEPT !.awsRegion = v]
  IN IF k = "enter" /\ v # << >>
       THEN Ret([m2 EXCEPT !.step = StepFrameworkSelection], "nil")
       ELSE Ret(m2, "nil")

UpdateFrameworkSelection(m1, k) ==
  LET s == singleSelectUpdate(m1.frameworkSelect, frameworkOptions, k)
      m2 == [m1 EXCEPT !.frameworkSelect = s]
  IN IF k = "enter" /\ GetSelected(s, frameworkOptions) # ""
       THEN Ret([m2 EXCEPT !.step = StepDeploySelection], "nil")
       ELSE Ret(m2, "nil")

UpdateDeploySelection(m1, k) ==
  LET m2 == [m1 EXCEPT !.deployConfirm = confirmUpdate(@, k)]
  IN IF k = "enter"
       THEN Ret([m2 EXCEPT !.step = StepReview], "nil")
       ELSE Ret(m2, "nil")

\* tea.Batch(m.spinner.Tick, m.generate())
UpdateReview(m1, k) ==
  IF k = "enter"
    THEN Ret([m1 EXCEPT !.step = StepGenerating, !.generating = TRUE],
             "tick+generate")
    ELSE Ret(m1, "nil")

UpdateComplete(m1, k) ==
  IF k = "enter" THEN Ret(m1, "quit") ELSE Ret(m1, "nil")

\* case "esc" of Update's first switch
EscStep(mm, k) ==
  IF k = "esc" /\ mm.step > StepWelcome
    THEN [mm EXCEPT !.step = @ - 1] ELSE mm

UpdateKey_NoQuitWhileGenerating(mm, k, creds) ==
  IF k \in {"ctrl+c", "q"} /\ ~mm.generating THEN Ret(mm, "quit")
  ELSE
    LET m1 == EscStep(mm, k) IN
    CASE m1.step = StepWelcome -> UpdateWelcome(m1, k)
      [] m1.step = StepProjectName -> UpdateProjectName(m1, k)
      [] m1.step = StepModulePath -> UpdateModulePath(m1, k)
      [] m1.step = StepOutputDir -> UpdateOutputDir(m1, k)
      [] m1.step = StepDatabaseSelection -> UpdateDatabaseSelection(m1, k)
      [] m1.step = StepAWSProfileSelection ->
           UpdateAWSProfileSelection(m1, k, creds)
      [] m1.step = StepAWSAccessKeyID -> UpdateAWSAccessKeyID(m1, k)
      [] m1.step = StepAWSSecretKey -> UpdateAWSSecretKey(m1, k)
      [] m1.step = StepAWSRegion -> UpdateAWSRegion(m1, k)
      [] m1.step = StepFrameworkSelection -> UpdateFrameworkSelection(m1, k)
      [] m1.step = StepDeploySelection -> UpdateDeploySelection(m1, k)
      [] m1.step = StepReview -> UpdateReview(m1, k)
      [] m1.step = StepComplete -> UpdateComplete(m1, k)
      [] OTHER -> Ret(m1, "nil")

\* Model.Update, case tea.KeyMsg
UpdateKey(mm, k, creds) ==
  IF k \in {"ctrl+c", "q"} THEN Ret(mm, "quit")
  ELSE
    LET m1 == EscStep(mm, k) IN
    CASE m1.step = StepWelcome -> UpdateWelcome(m1, k)
      [] m1.step = StepProjectName -> UpdateProjectName(m1, k)
      [] m1.step = StepModulePath -> UpdateModulePath(m1, k)
      [] m1.step = StepOutputDir -> UpdateOutputDir(m1, k)
      [] m1.step = StepDatabaseSelection -> UpdateDatabaseSelection(m1, k)
      [] m1.step = StepAWSProfileSelection ->
           UpdateAWSProfileSelection(m1, k, creds)
      [] m1.step = StepAWSAccessKeyID -> UpdateAWSAccessKeyID(m1, k)
      [] m1.step = StepAWSSecretKey -> UpdateAWSSecretKey(m1, k)
      [] m1.step = StepAWSRegion -> UpdateAWSRegion(m1, k)
      [] m1.step = StepFrameworkSelection -> UpdateFrameworkSelection(m1, k)
      [] m1.step = StepDeploySelection -> UpdateDeploySelection(m1, k)
      [] m1.step = StepReview -> UpdateReview(m1, k)
      [] m1.step = StepComplete -> UpdateComplete(m1, k)
      [] OTHER -> Ret(m1, "nil")

\* Model.Update, case spinner.TickMsg: spinner.Model.Update advances the
\* frame (not modelled) and returns the command of the next tick.
UpdateTick(mm) == Ret(mm, "tick")

UpdateGenerationComplete_AlwaysDeploys(mm, msg) ==
  Ret([mm EXCEPT !.step = StepGenerating, !.generating = TRUE,
                 !.deploying = TRUE], "tick+deploy")

UpdateGenerationComplete_NeverDeploys(mm, msg) ==
  Ret([mm EXCEPT !.step = StepComplete, !.generating = FALSE], "nil")

\* Model.Update, case GenerationCompleteMsg
UpdateGenerationComplete(mm, msg) ==
  IF msg.ShouldDeploy
    THEN Ret([mm EXCEPT !.step = StepGenerating, !.generating = TRUE,
                        !.deploying = TRUE], "tick+deploy")
    ELSE Ret([mm EXCEPT !.step = StepComplete, !.generating = FALSE], "nil")

\* Model.Update, case DeploymentCompleteMsg
UpdateDeploymentComplete(mm, msg) ==
  Ret([mm EXCEPT !.step = StepComplete, !.generating = FALSE,
                 !.deploying = FALSE,
                 !.err = IF msg.Error # NilErr THEN msg.Error ELSE @], "nil")

\* Model.Update, case GenerationErrorMsg
UpdateGenerationError(mm, msg) ==
  Ret([mm EXCEPT !.err = msg.Err, !.generating = FALSE], "nil")

GenerateConfig_DeployFromChoice(mm) ==
  LET selectedDB == GetSelected(mm.databaseSelect, databaseOptions)
      selectedFramework == GetSelected(mm.frameworkSelect, frameworkOptions)
  IN [ ProjectName |-> mm.projectName,
       ModulePath |-> mm.modulePath,
       OutputDir |-> mm.outputDir,
       Database |->
         [ Type |-> IF selectedDB = "PostgreSQL" THEN DatabaseTypePostgres
                    ELSE IF selectedDB = "DynamoDB" THEN DatabaseTypeDynamoDB
                    ELSE "",
           AWSAccessKeyID |-> mm.awsAccessKeyID,
           AWSSecretKey |-> mm.awsSecretKey,
           AWSRegion |-> mm.awsRegion ],
       Framework |-> IF selectedFramework = "Chi" THEN FrameworkTypeChi
                     ELSE IF selectedFramework = "ConnectRPC"
                       THEN FrameworkTypeConnectRPC
                     ELSE "",
       Deploy |-> GetChoice(mm.deployConfirm) ]

\* The ProjectConfig the closure of Model.generate assembles from the
\* fields of the model it points to.
GenerateConfig(mm) ==
  LET selectedDB == GetSelected(mm.databaseSelect, databaseOptions)
      selectedFramework == GetSelected(mm.frameworkSelect, frameworkOptions)
  IN [ ProjectName |-> mm.projectName,
       ModulePath |-> mm.modulePath,
       OutputDir |-> mm.outputDir,
       Database |->
         [ Type |-> IF selectedDB = "PostgreSQL" THEN DatabaseTypePostgres
                    ELSE IF selectedDB = "DynamoDB" THEN DatabaseTypeDynamoDB
                    ELSE "",
           AWSAccessKeyID |-> mm.awsAccessKeyID,
           AWSSecretKey |-> mm.awsSecretKey,
           AWSRegion |-> mm.awsRegion ],
       Framework |-> IF selectedFramework = "Chi" THEN FrameworkTypeChi
                     ELSE IF selectedFramework = "ConnectRPC"
                       THEN FrameworkTypeConnectRPC
                     ELSE "",
       Deploy |-> TRUE ]

\* The zero ProjectConfig: cfg of a closure that has not run yet.
ZeroConfig ==
  [ ProjectName |-> << >>, ModulePath |-> << >>, OutputDir |-> << >>,
    Database |-> [Type |-> "", AWSAccessKeyID |-> << >>,
                  AWSSecretKey |-> << >>, AWSRegion |-> << >>],
    Framework |-> "", Deploy |-> FALSE ]

\* The message the closure of Model.generate returns once gen.Generate()
\* has returned generateErr; deployChoice is m.deployConfirm.GetChoice()
\* as read at that moment.
GenerateResult(cfg, generateErr, deployChoice) ==
  IF generateErr # NilErr
    THEN [type |-> "GenerationErrorMsg", Err |-> generateErr]
  ELSE IF deployChoice
    THEN [type |-> "GenerationCompleteMsg", ShouldDeploy |-> TRUE,
          OutputDir |-> cfg.OutputDir, ProjectName |-> cfg.ProjectName]
  ELSE [type |-> "GenerationCompleteMsg", ShouldDeploy |-> FALSE,
        OutputDir |-> << >>, ProjectName |-> << >>]

\* The closure of Model.deploy: probe flyctl, then fly; run the tool once.
DeployCommand(flyctlFound, flyFound) ==
  IF flyctlFound THEN "flyctl" ELSE IF flyFound THEN "fly" ELSE ""

\* The processes the closure of Model.deploy starts: none when no tool is
\* found, otherwise one "launch" of the tool found, named after the project.
DeployInvoked(flyctlFound, flyFound, projectName) ==
  IF DeployCommand(flyctlFound, flyFound) = ""
    THEN << >>
    ELSE << <<DeployCommand(flyctlFound, flyFound), "launch", "--name",
              projectName, "--copy-config", "--yes">> >>

DeployResult(flyctlFound, flyFound, runOK) ==
  IF DeployCommand(flyctlFound, flyFound) = ""
    THEN [type |-> "DeploymentCompleteMsg", Success |-> FALSE,
          Error |-> ErrToolNotFound]
  ELSE IF ~runOK
    THEN [type |-> "DeploymentCompleteMsg", Success |-> FALSE,
          Error |-> ErrDeployFailed]
  ELSE [type |-> "DeploymentCompleteMsg", Success |-> TRUE, Error |-> NilErr]

\* Model.renderComplete
renderComplete(mm) ==
  IF mm.err # NilErr
    THEN IF Contains(mm.err, "deployment") \/ Contains(mm.err, "flyctl")
            \/ Contains(mm.err, "fly")
           THEN "GeneratedDeploymentFailed"
           ELSE "Error"
    ELSE "GeneratedSuccessfully"

\* Model.renderGenerating
renderGenerating(mm) == IF mm.deploying THEN "Deploying" ELSE "Generating"

\* Model.View: which view is rendered
View(mm) ==
  IF mm.generating THEN renderGenerating(mm)
  ELSE IF mm.err # NilErr THEN "Error"
  ELSE CASE mm.step = StepGenerating -> renderGenerating(mm)
         [] mm.step = StepComplete -> renderComplete(mm)
         [] OTHER -> <<"Step", mm.step>>

\* ------------------------------------------- the bubbletea event loop

\* history: the steps of a run without back actions
NextTrail(newStep, newBacks) ==
  IF newBacks > 0 THEN << >>
  ELSE IF newStep # m.step THEN Append(trail, newStep)
  ELSE trail

WizardInit ==
  /\ m = NewModel
  /\ running = TRUE
  /\ genTasks = EmptyBag
  /\ deployTasks = EmptyBag
  /\ msgs = EmptyBag
  /\ ticking = FALSE
  /\ backs = 0
  /\ edits = 0
  /\ trail = <<StepWelcome>>
  /\ enteredFrom = [s \in Steps |-> -1]
  /\ genLaunched = 0
  /\ deployLaunched = 0

Init ==
  /\ WizardInit
  /\ gen = NoGenerator
  /\ sub = NoSubstitution
  /\ reg = NoRegionCall
  /\ dep = NoDeployCall
  /\ cli = NoCreateCommand

\* The buffer of a text-field step.
Buffer(mm, s) ==
  CASE s = StepProjectName -> mm.projectName
    [] s = StepModulePath -> mm.modulePath
    [] s = StepOutputDir -> mm.outputDir
    [] s = StepAWSAccessKeyID -> mm.awsAccessKeyID
    [] s = StepAWSSecretKey -> mm.awsSecretKey
    [] s = StepAWSRegion -> mm.awsRegion

\* Backspace deletes one rune: it is sent when the buffer is empty or ends
\* with a typed rune, not with a text of several runes.
BackspaceDeletesToken(mm) ==
  LET b == Buffer(mm, mm.step)
  IN IF b = << >> THEN TRUE ELSE b[Len(b)] \in TypedRunes

\* The event loop processes a key event.
KeyMsg(k) ==
  /\ running
  /\ (k = "backspace" /\ m.step \in TextSteps) => BackspaceDeletesToken(m)
  /\ k \in {"y", "n", " "} => m.step \notin TextSteps
  /\ (k = "esc" /\ m.step > StepWelcome) => backs < MaxBack
  /\ k \in EditKeys => (m.step \in TextSteps /\ edits < MaxEdits)
  /\ (k = "enter" /\ m.step = StepReview) => genLaunched < MaxRuns
  /\ \E creds \in CredentialLookups :
       LET r == UpdateKey(m, k, creds)
           launch == r.cmd = "tick+generate"
           newBacks == IF k = "esc" /\ m.step > StepWelcome
                         THEN backs + 1 ELSE backs
       IN /\ m' = r.m
          /\ running' = (r.cmd # "quit")
          /\ genTasks' =
               IF launch
                 THEN genTasks (+) SetToBag({[phase |-> "launched",
                        cfg |-> ZeroConfig,
                        atEnter |-> [cfg |-> GenerateConfig(r.m),
                                     deployNow |-> GetChoice(r.m.deployConfirm)]]})
                 ELSE genTasks
          /\ ticking' = (ticking \/ launch)
          /\ genLaunched' = IF launch THEN genLaunched + 1 ELSE genLaunched
          /\ backs' = newBacks
          /\ edits' = IF k \in EditKeys THEN edits + 1 ELSE edits
          /\ trail' = NextTrail(r.m.step, newBacks)
          /\ enteredFrom' =
               IF k = "enter" /\ r.m.step # m.step
                 THEN [enteredFrom EXCEPT ![r.m.step] = m.step]
                 ELSE enteredFrom
          /\ UNCHANGED <<gen, sub, reg, dep, cli>>
          /\ UNCHANGED <<deployTasks, msgs, deployLaunched>>

\* The event loop processes a pending tick of the spinner: spinner.Tick and
\* the command spinner.Update returns post the next TickMsg.  (The spinner
\* rejects the duplicate ticks of a second launch by their tag; they are
\* not counted.)
TickMsg ==
  /\ running
  /\ ticking
  /\ m' = UpdateTick(m).m
  /\ ticking' = (UpdateTick(m).cmd = "tick")
  /\ UNCHANGED <<gen, sub, reg, dep, cli>>
  /\ UNCHANGED <<running, genTasks, deployTasks, msgs, backs, edits, trail,
                 enteredFrom, genLaunched, deployLaunched>>

\* The event loop processes the completion message of a generation task.
GenerationCompleteMsg(p) ==
  /\ running
  /\ BagIn(p, msgs)
  /\ p.msg.type = "GenerationCompleteMsg"
  /\ LET r == UpdateGenerationComplete(m, p.msg)
         launch == r.cmd = "tick+deploy"
     IN /\ m' = r.m
        /\ msgs' = msgs (-) SetToBag({p})
        /\ deployTasks' =
             IF launch
               THEN deployTasks (+) SetToBag({[outputDir |-> p.msg.OutputDir,
                                              projectName |-> p.msg.ProjectName]})
               ELSE deployTasks
        /\ ticking' = (ticking \/ launch)
        /\ deployLaunched' = IF launch THEN deployLaunched + 1
                             ELSE deployLaunched
        /\ trail' = NextTrail(r.m.step, backs)
        /\ UNCHANGED <<gen, sub, reg, dep, cli>>
        /\ UNCHANGED <<running, genTasks, backs, edits, enteredFrom, genLaunched>>

GenerationErrorMsg(p) ==
  /\ running
  /\ BagIn(p, msgs)
  /\ p.msg.type = "GenerationErrorMsg"
  /\ m' = UpdateGenerationError(m, p.msg).m
  /\ msgs' = msgs (-) SetToBag({p})
  /\ trail' = NextTrail(m'.step, backs)
  /\ UNCHANGED <<gen, sub, reg, dep, cli>>
  /\ UNCHANGED <<running, genTasks, deployTasks, ticking, backs, edits, enteredFrom,
                 genLaunched, deployLaunched>>

DeploymentCompleteMsg(p) ==
  /\ running
  /\ BagIn(p, msgs)
  /\ p.msg.type = "DeploymentCompleteMsg"
  /\ m' = UpdateDeploymentComplete(m, p.msg).m
  /\ msgs' = msgs (-) SetToBag({p})
  /\ trail' = NextTrail(m'.step, backs)
  /\ UNCHANGED <<gen, sub, reg, dep, cli>>
  /\ UNCHANGED <<running, genTasks, deployTasks, ticking, backs, edits, enteredFrom,
                 genLaunched, deployLaunched>>

\* ------------------------------------------------------- the goroutines

\* The closure of Model.generate reads the model's fields into cfg.
GenerateRead(t) ==
  /\ running
  /\ BagIn(t, genTasks)
  /\ t.phase = "launched"
  /\ genTasks' = (genTasks (-) SetToBag({t}))
                   (+) SetToBag({[t EXCEPT !.phase = "generating",
                                           !.cfg = GenerateConfig(m)]})
  /\ UNCHANGED <<gen, sub, reg, dep, cli>>
  /\ UNCHANGED <<m, running, deployTasks, msgs, ticking, backs, edits, trail,
                 enteredFrom, genLaunched, deployLaunched>>

\* gen.Generate() returns; on success the closure reads deployConfirm,
\* stores it in m.deployEnabled and returns its message.
GenerateReturn(t, generateErr) ==
  /\ running
  /\ BagIn(t, genTasks)
  /\ t.phase = "generating"
  /\ genTasks' = genTasks (-) SetToBag({t})
  /\ m' = IF generateErr = NilErr
            THEN [m EXCEPT !.deployEnabled = GetChoice(m.deployConfirm)]
            ELSE m
  /\ msgs' = msgs (+) SetToBag({[
               msg |-> GenerateResult(t.cfg, generateErr,
                                      GetChoice(m.deployConfirm)),
               deployNowAtEnter |-> t.atEnter.deployNow]})
  /\ UNCHANGED <<gen, sub, reg, dep, cli>>
  /\ UNCHANGED <<running, deployTasks, ticking, backs, edits, trail, enteredFrom,
                 genLaunched, deployLaunched>>

\* The closure of Model.deploy runs to its end.
DeployRun(t, flyctlFound, flyFound, runOK) ==
  /\ running
  /\ BagIn(t, deployTasks)
  /\ deployTasks' = deployTasks (-) SetToBag({t})
  /\ msgs' = msgs (+) SetToBag({[
               msg |-> DeployResult(flyctlFound, flyFound, runOK),
               deployNowAtEnter |-> TRUE]})
  /\ UNCHANGED <<gen, sub, reg, dep, cli>>
  /\ UNCHANGED <<m, running, genTasks, ticking, backs, edits, trail, enteredFrom,
                 genLaunched, deployLaunched>>

Next ==
  \/ \E k \in Keys : KeyMsg(k)
  \/ TickMsg
  \/ \E p \in BagToSet(msgs) : GenerationCompleteMsg(p)
  \/ \E p \in BagToSet(msgs) : GenerationErrorMsg(p)
  \/ \E p \in BagToSet(msgs) : DeploymentCompleteMsg(p)
  \/ \E t \in BagToSet(genTasks) : GenerateRead(t)
  \/ \E t \in BagToSet(genTasks) :
       \E generateErr \in {NilErr, ErrGenerate} : GenerateReturn(t, generateErr)
  \/ \E t \in BagToSet(deployTasks) :
       \E flyctlFound \in BOOLEAN, flyFound \in BOOLEAN, runOK \in BOOLEAN :
         DeployRun(t, flyctlFound, flyFound, runOK)

Spec == Init /\ [][Next]_vars

\* The program with a user who sends no key once a generation run is
\* launched.
NextHandsOff ==
  \/ (genLaunched = 0 /\ \E k \in Keys : KeyMsg(k))
  \/ TickMsg
  \/ \E p \in BagToSet(msgs) : GenerationCompleteMsg(p)
  \/ \E p \in BagToSet(msgs) : GenerationErrorMsg(p)
  \/ \E p \in BagToSet(msgs) : DeploymentCompleteMsg(p)
  \/ \E t \in BagToSet(genTasks) : GenerateRead(t)
  \/ \E t \in BagToSet(genTasks) :
       \E generateErr \in {NilErr, ErrGenerate} : GenerateReturn(t, generateErr)
  \/ \E t \in BagToSet(deployTasks) :
       \E flyctlFound \in BOOLEAN, flyFound \in BOOLEAN, runOK \in BOOLEAN :
         DeployRun(t, flyctlFound, flyFound, runOK)

\* Each launched task posts its message and the loop receives it.
SpecHandsOff ==
  /\ Init /\ [][NextHandsOff]_vars
  /\ WF_vars(\E t \in BagToSet(genTasks) : GenerateRead(t))
  /\ WF_vars(\E t \in BagToSet(genTasks) :
       \E generateErr \in {NilErr, ErrGenerate} : GenerateReturn(t, generateErr))
  /\ WF_vars(\E t \in BagToSet(deployTasks) :
       \E flyctlFound \in BOOLEAN, flyFound \in BOOLEAN, runOK \in BOOLEAN :
         DeployRun(t, flyctlFound, flyFound, runOK))
  /\ WF_vars(\E p \in BagToSet(msgs) : GenerationCompleteMsg(p))
  /\ WF_vars(\E p \in BagToSet(msgs) : GenerationErrorMsg(p))
  /\ WF_vars(\E p \in BagToSet(msgs) : DeploymentCompleteMsg(p))

\* --------------------------------------------------------- the generator

\* A path, by the parts the code takes from it: filepath.Dir, the file
\* name without its extension, and filepath.Ext.
Path(dir, name, ext) == [dir |-> dir, name |-> name, ext |-> ext]

\* fileMapping
fileMapping(outputPath, templatePath) ==
  [outputPath |-> outputPath, templatePath |-> templatePath]

\* The rules of Generator.getFileGenerationRules; condition is "nil" or
\* names the function of the rule.
\* Base files (always generated)
baseRule ==
     [files |-> <<
        fileMapping(Path(".", "go", ".mod"),
                    Path("templates/base", "go.mod", ".tmpl")),
        fileMapping(Path(".", "README", ".md"),
                    Path("templates/base", "README.md", ".tmpl")),
        fileMapping(Path(".", "Makefile", ""),
                    Path("templates", "Makefile", ".tmpl")),
        fileMapping(Path(".", "", ".gitignore"),
                    Path("static", "", ".gitignore")),
        fileMapping(Path(".", "", ".dockerignore"),
                    Path("static", "", ".dockerignore")),
        fileMapping(Path(".", "", ".env"),
                    Path("templates", ".env", ".tmpl")),
        fileMapping(Path(".", ".mockery", ".yaml"),
                    Path("templates", ".mockery.yaml", ".tmpl")),
        fileMapping(Path(".", "prometheus", ".yml"),
                    Path("templates", "prometheus.yml", ".tmpl")),
        fileMapping(Path("grafana/provisioning/datasources", "prometheus", ".yml"),
                    Path("templates/grafana/provisioning/datasources",
                         "prometheus.yml", ".tmpl")) >>,
      condition |-> "nil"]

\* Config files (always generated)
configRule ==
     [files |-> <<
        fileMapping(Path("internal/config", "stage", ".go"),
                    Path("static/internal/config", "stage", ".go")),
        fileMapping(Path("internal/config", "config", ".go"),
                    Path("static/internal/config", "config", ".go")),
        fileMapping(Path("internal/config", "local", ".yaml"),
                    Path("static/internal/config", "local", ".yaml")),
        fileMapping(Path("internal/config", "production", ".yaml"),
                    Path("static/internal/config", "production", ".yaml")) >>,
      condition |-> "nil"]

\* Posts domain files (always generated)
postsRule ==
     [files |-> <<
        fileMapping(Path("internal/posts", "post", ".go"),
                    Path("static/internal/posts", "post", ".go")),
        fileMapping(Path("internal/posts", "errors", ".go"),
                    Path("static/internal/posts", "errors", ".go")),
        fileMapping(Path("internal/posts", "table", ".go"),
                    Path("static/internal/posts", "table", ".go")),
        fileMapping(Path("internal/posts", "service", ".go"),
                    Path("static/internal/posts", "service", ".go")),
        fileMapping(Path("internal/posts", "service_test", ".go"),
                    Path("static/internal/posts", "service_test", ".go")) >>,
      condition |-> "nil"]

scriptsRule_WithDeploy ==
     [files |-> <<
        fileMapping(Path("scripts", "check-deps", ".sh"),
                    Path("templates/scripts", "check-deps.sh", ".tmpl")),
        fileMapping(Path("scripts", "deploy", ".sh"),
                    Path("static/scripts", "deploy", ".sh")) >>,
      condition |-> "nil"]

\* Scripts (always generated)
scriptsRule ==
     [files |-> <<
        fileMapping(Path("scripts", "check-deps", ".sh"),
                    Path("templates/scripts", "check-deps.sh", ".tmpl")),
        fileMapping(Path("scripts", "generate", ".sh"),
                    Path("templates/scripts", "generate.sh", ".tmpl")),
        fileMapping(Path("scripts", "migrate", ".sh"),
                    Path("static/scripts", "migrate", ".sh")) >>,
      condition |-> "nil"]

\* Deploy scripts (only if the deploy option is selected)
deployScriptsRules(config) ==
     (IF config.Deploy
        THEN << [files |-> <<
                   fileMapping(Path("scripts", "deploy", ".sh"),
                               Path("templates/scripts", "deploy.sh", ".tmpl")),
                   fileMapping(Path("scripts", "destroy", ".sh"),
                               Path("templates/scripts", "destroy.sh", ".tmpl")) >>,
                 condition |-> "nil"] >>
        ELSE << >>)

databaseRules_ByRegion(config) ==
  IF config.Database.Type = DatabaseTypeDynamoDB
       /\ config.Database.AWSRegion # << >>
    THEN << [files |-> <<
               fileMapping(Path("internal/database", "dynamodb", ".go"),
                           Path("static/internal/database", "dynamodb", ".go")),
               fileMapping(Path("terraform", "main", ".tf"),
                           Path("static/terraform", "main", ".tf")) >>,
             condition |-> "nil"] >>
    ELSE << [files |-> <<
               fileMapping(Path("internal/database", "dynamodb", ".go"),
                           Path("static/internal/database", "dynamodb", ".go")) >>,
             condition |-> "nil"] >>

\* Database type-specific files: the switch has no default case
databaseRules(config) ==
     (CASE config.Database.Type = DatabaseTypePostgres ->
             << [files |-> <<
                   fileMapping(Path("internal/database", "postgres", ".go"),
                               Path("static/internal/database", "postgres", ".go")),
                   fileMapping(Path("internal/posts", "postgres_table", ".go"),
                               Path("static/internal/posts", "postgres_table", ".go")),
                   fileMapping(Path("internal/posts", "postgres_table_test", ".go"),
                               Path("static/internal/posts", "postgres_table_test", ".go")),
                   fileMapping(Path(".", ".env", ".local"),
                               Path("static", ".env.local", ".postgres")),
                   fileMapping(Path(".", "docker-compose", ".yml"),
                               Path("static", "docker-compose.yml", ".postgres")),
                   fileMapping(Path(".", "schema", ".sql"),
                               Path("static", "schema", ".sql")) >>,
                 condition |-> "nil"] >>
        [] config.Database.Type = DatabaseTypeDynamoDB ->
             << [files |-> <<
                   fileMapping(Path("internal/database", "dynamodb", ".go"),
                               Path("static/internal/database", "dynamodb", ".go")),
                   fileMapping(Path("internal/posts", "dynamodb_table", ".go"),
                               Path("static/internal/posts", "dynamodb_table", ".go")),
                   fileMapping(Path("internal/posts", "dynamodb_table_test", ".go"),
                               Path("static/internal/posts", "dynamodb_table_test", ".go")),
                   fileMapping(Path("internal/posts", "dynamodb_converters", ".go"),
                               Path("static/internal/posts", "dynamodb_converters", ".go")),
                   fileMapping(Path(".", ".env", ".local"),
                               Path("templates", ".env.local.dynamodb", ".tmpl")),
                   fileMapping(Path(".", "docker-compose", ".yml"),
                               Path("static", "docker-compose.yml", ".dynamodb")) >>,
                 condition |-> "nil"] >>
        [] OTHER -> << >>)

frameworkRules_ChiOnly(config) ==
  IF config.Framework = FrameworkTypeChi
    THEN << [files |-> <<
               fileMapping(Path("cmd/api", "main", ".go"),
                           Path("templates/cmd/api", "main_chi.go", ".tmpl")),
               fileMapping(Path("internal/posts", "routes", ".go"),
                           Path("static/internal/posts", "routes", ".go")) >>,
             condition |-> "nil"] >>
    ELSE << >>

\* Framework type-specific files: the switch has no default case
frameworkRules(config) ==
     (CASE config.Framework = FrameworkTypeChi ->
             << [files |-> <<
                   fileMapping(Path("cmd/api", "main", ".go"),
                               Path("templates/cmd/api", "main_chi.go", ".tmpl")),
                   fileMapping(Path("internal/posts", "routes", ".go"),
                               Path("static/internal/posts", "routes", ".go")) >>,
                 condition |-> "nil"] >>
        [] config.Framework = FrameworkTypeConnectRPC ->
             << [files |-> <<
                   fileMapping(Path("cmd/api", "main", ".go"),
                               Path("templates/cmd/api", "main_connectrpc.go", ".tmpl")),
                   fileMapping(Path("internal/api", "posts_handler", ".go"),
                               Path("static/internal/api", "posts_handler_connectrpc", ".go")),
                   fileMapping(Path("internal/posts", "converters", ".go"),
                               Path("templates/internal/posts", "converters.go", ".tmpl")),
                   fileMapping(Path("internal/protos/posts/v1", "posts", ".proto"),
                               Path("static/protos/posts/v1", "posts", ".proto")),
                   fileMapping(Path(".", "buf", ".yaml"),
                               Path("static", "buf", ".yaml")),
                   fileMapping(Path(".", "buf.gen", ".yaml"),
                               Path("templates", "buf.gen.yaml", ".tmpl")) >>,
                 condition |-> "nil"] >>
        [] OTHER -> << >>)

deploymentRules_DockerfileAlways(config) ==
  << [files |->
        (IF config.Deploy
           THEN << fileMapping(Path(".", "fly", ".toml"),
                               Path("templates/deploy", "fly.toml", ".tmpl")) >>
           ELSE << >>)
        \o << fileMapping(Path(".", "Dockerfile", ""),
                          Path("static", "Dockerfile", "")) >>,
      condition |-> "mkdirWorkflows"] >>

\* Deployment files
deploymentRules(config) ==
     (IF config.Deploy
        THEN << [files |-> <<
                   fileMapping(Path(".", "fly", ".toml"),
                               Path("templates/deploy", "fly.toml", ".tmpl")),
                   fileMapping(Path(".", "Dockerfile", ""),
                               Path("static", "Dockerfile", "")),
                   fileMapping(Path(".github/workflows", "deploy", ".yml"),
                               Path("templates/deploy/github/workflows",
                                    "deploy.yml", ".tmpl")) >>,
                 condition |-> "mkdirWorkflows"] >>
        ELSE << >>)

getFileGenerationRules_FrameworkFirst(config) ==
  <<baseRule, configRule, postsRule, scriptsRule>>
    \o deployScriptsRules(config)
    \o frameworkRules(config)
    \o databaseRules(config)
    \o deploymentRules(config)

\* Generator.getFileGenerationRules: the rules in the order appended
getFileGenerationRules(config) ==
  <<baseRule, configRule, postsRule, scriptsRule>>
    \o deployScriptsRules(config)
    \o databaseRules(config)
    \o frameworkRules(config)
    \o deploymentRules(config)

\* The condition of the deployment rule creates .github/workflows, ignores
\* the error of MkdirAll and returns true.
conditionDirs(condition) ==
  IF condition = "mkdirWorkflows" THEN {".github/workflows"} ELSE {}

conditionResult(condition) == TRUE

\* Generate's test of a rule: rule.condition == nil || rule.condition(g)
ruleApplies(rule) ==
  rule.condition = "nil" \/ conditionResult(rule.condition)

\* The file mappings of a sequence of rules, in order
RECURSIVE Flatten(_)
Flatten(rules) ==
  IF rules = << >> THEN << >>
  ELSE Head(rules).files \o Flatten(Tail(rules))

\* The plan of a configuration: the files Generate's loop hands to
\* generateFiles, in order
Plan(config) ==
  Flatten(SelectSeq(getFileGenerationRules(config), ruleApplies))

\* Generator.createDirectoryStructure: the directories, in order
createDirectoryStructure(config) ==
  <<"cmd/api", "internal/config", "internal/database", "internal/posts",
    "internal/metrics">>
    \o (IF config.Framework = FrameworkTypeConnectRPC
          THEN <<"internal/protos/posts/v1", "internal/protos/gen/posts/v1">>
          ELSE << >>)
    \o (IF config.Database.Type = DatabaseTypePostgres
          THEN <<"migrations">> ELSE << >>)
    \o <<"scripts">>
    \o (IF config.Database.Type = DatabaseTypeDynamoDB
          THEN <<"terraform">> ELSE << >>)

\* The elements of a sequence
Range(seq) == {seq[i] : i \in DOMAIN seq}

\* errors of the generator: a message and the path it names, if any
NoPath == Path("", "", "")
GenErr(msg, path) == [msg |-> msg, path |-> path]
NilGenErr == GenErr("nil", NoPath)

\* awsRegionToFlyRegion: the table, and the default for a region that is
\* not a key of it
regionMap ==
  [ r \in {"us-east-1", "us-east-2", "us-west-1", "us-west-2", "eu-west-1",
           "eu-west-2", "eu-west-3", "eu-central-1", "eu-north-1",
           "ap-southeast-1", "ap-southeast-2", "ap-northeast-1", "ap-south-1",
           "sa-east-1"} |->
      CASE r = "us-east-1" -> "iad"
        [] r = "us-east-2" -> "ord"
        [] r = "us-west-1" -> "sea"
        [] r = "us-west-2" -> "dfw"
        [] r = "eu-west-1" -> "ams"
        [] r = "eu-west-2" -> "lhr"
        [] r = "eu-west-3" -> "cdg"
        [] r = "eu-central-1" -> "fra"
        [] r = "eu-north-1" -> "arn"
        [] r = "ap-southeast-1" -> "sin"
        [] r = "ap-southeast-2" -> "syd"
        [] r = "ap-northeast-1" -> "nrt"
        [] r = "ap-south-1" -> "bom"
        [] r = "sa-east-1" -> "gru" ]

awsRegionToFlyRegion_PrefixMatch(awsRegion) ==
  IF Len(awsRegion) >= 1 /\ awsRegion[1] \in DOMAIN regionMap
    THEN regionMap[awsRegion[1]]
    ELSE "iad"

\* A region is a text, a sequence of tokens; it is a key of the table when
\* it is one token that the table holds.
awsRegionToFlyRegion(awsRegion) ==
  IF Len(awsRegion) = 1 /\ awsRegion[1] \in DOMAIN regionMap
    THEN regionMap[awsRegion[1]]
    ELSE "iad"

getTemplateData_IgnoresType(config) ==
  LET flyRegion ==
        IF config.Database.AWSRegion # << >>
          THEN awsRegionToFlyRegion(config.Database.AWSRegion)
          ELSE "iad"
  IN [ ProjectName |-> config.ProjectName,
       ModulePath |-> config.ModulePath,
       Database |-> [ Type |-> config.Database.Type,
                      AWSAccessKeyID |-> config.Database.AWSAccessKeyID,
                      AWSSecretKey |-> config.Database.AWSSecretKey,
                      AWSRegion |-> config.Database.AWSRegion ],
       Framework |-> config.Framework,
       HasPostgres |-> config.Database.Type = DatabaseTypePostgres,
       HasDynamoDB |-> config.Database.Type = DatabaseTypeDynamoDB,
       HasChi |-> config.Framework = FrameworkTypeChi,
       HasConnectRPC |-> config.Framework = FrameworkTypeConnectRPC,
       HasGRPC |-> config.Framework = FrameworkTypeConnectRPC,
       Deploy |-> config.Deploy,
       FlyRegion |-> flyRegion ]

\* Generator.getTemplateData
getTemplateData(config) ==
  LET flyRegion ==
        IF config.Database.Type = DatabaseTypeDynamoDB
             /\ config.Database.AWSRegion # << >>
          THEN awsRegionToFlyRegion(config.Database.AWSRegion)
          ELSE "iad"
  IN [ ProjectName |-> config.ProjectName,
       ModulePath |-> config.ModulePath,
       Database |-> [ Type |-> config.Database.Type,
                      AWSAccessKeyID |-> config.Database.AWSAccessKeyID,
                      AWSSecretKey |-> config.Database.AWSSecretKey,
                      AWSRegion |-> config.Database.AWSRegion ],
       Framework |-> config.Framework,
       HasPostgres |-> config.Database.Type = DatabaseTypePostgres,
       HasDynamoDB |-> config.Database.Type = DatabaseTypeDynamoDB,
       HasChi |-> config.Framework = FrameworkTypeChi,
       HasConnectRPC |-> config.Framework = FrameworkTypeConnectRPC,
       HasGRPC |-> config.Framework = FrameworkTypeConnectRPC,
       Deploy |-> config.Deploy,
       FlyRegion |-> flyRegion ]

\* The template data before Generate has computed it
NoTemplateData == [computed |-> FALSE]

\* File permissions, as the set of the mode bits or-ed together
filePermRegular == {"S_IRUSR", "S_IWUSR", "S_IRGRP", "S_IROTH"}
filePermExecutable ==
  {"S_IRUSR", "S_IWUSR", "S_IXUSR", "S_IRGRP", "S_IXGRP", "S_IROTH", "S_IXOTH"}

FilePerm_AlwaysRegular(outputPath) ==
  filePermRegular

\* perm of copyFile and generateFile: strings.HasSuffix(outputPath, ".sh")
FilePerm(outputPath) ==
  IF outputPath.ext = ".sh" THEN filePermExecutable ELSE filePermRegular

\* The AWS regions of a configuration: none, a key of the table, a region
\* the table does not hold
AWSRegions == {<< >>, <<"eu-west-1">>, <<"xx-unknown-1">>}

\* The configurations the create command and the wizard pass to
\* NewGenerator: validateFlags and the two selection steps admit only the
\* two drivers and the two frameworks.
GenConfigs ==
  { [ ProjectName |-> name,
      ModulePath |-> <<"github.com/user/">> \o name,
      OutputDir |-> <<"./">> \o name,
      Database |-> [ Type |-> dbType,
                     AWSAccessKeyID |-> << >>,
                     AWSSecretKey |-> << >>,
                     AWSRegion |-> region ],
      Framework |-> framework,
      Deploy |-> deploy ] :
    name \in {<<"a">>, <<"b">>},
    dbType \in {DatabaseTypePostgres, DatabaseTypeDynamoDB},
    region \in AWSRegions,
    framework \in {FrameworkTypeChi, FrameworkTypeConnectRPC},
    deploy \in BOOLEAN }

\* NewGenerator
NewGenerator(config) ==
  [ phase |-> "new",
    config |-> config,
    rules |-> << >>,      \* the rules Generate loops over
    ri |-> 1,             \* index of the current rule
    fi |-> 1,             \* index of the current file of that rule
    dirs |-> {},          \* directories created under the output directory
    written |-> << >>,    \* file mappings written, in order
    perms |-> << >>,      \* the permissions they were written with
    attempted |-> 0,      \* calls of copyFile and generateFile so far
    data |-> NoTemplateData,  \* data of Generate
    rendered |-> << >>,   \* the data each template was executed with
    err |-> NilGenErr ]

\* Generator.generateFiles: copyFile for a source whose extension is not
\* .tmpl, generateFile otherwise
IsTemplate(file) == file.templatePath.ext = ".tmpl"

\* What can happen to one file: the source is read (copyFile) or the
\* template is loaded and executed (generateFile), the directory is
\* created, the file is written.
Outcomes == {"ok", "read", "load", "parse", "execute", "mkdir", "write"}

OutcomesOf(file) ==
  IF IsTemplate(file) THEN {"ok", "load", "parse", "execute", "mkdir", "write"}
  ELSE {"ok", "read", "mkdir", "write"}

FileErr_ExecuteUnnamed(file, outcome) ==
  CASE outcome = "read" ->
         GenErr("failed to read source file", file.templatePath)
    [] outcome = "load" ->
         GenErr("failed to load template: failed to read template",
                file.templatePath)
    [] outcome = "parse" ->
         GenErr("failed to load template: failed to parse template",
                file.templatePath)
    [] outcome = "execute" -> GenErr("failed to execute template", NoPath)
    [] outcome = "mkdir" -> GenErr("failed to create directory", NoPath)
    [] outcome = "write" -> GenErr("failed to write file", NoPath)
    [] OTHER -> NilGenErr

\* The error copyFile or generateFile returns; LoadTemplate fails to read
\* the template ("load") or to parse it ("parse"), and generateFile wraps
\* its error
FileErr(file, outcome) ==
  CASE outcome = "read" ->
         GenErr("failed to read source file", file.templatePath)
    [] outcome = "load" ->
         GenErr("failed to load template: failed to read template",
                file.templatePath)
    [] outcome = "parse" ->
         GenErr("failed to load template: failed to parse template",
                file.templatePath)
    [] outcome = "execute" ->
         GenErr("failed to execute template", file.templatePath)
    [] outcome = "mkdir" -> GenErr("failed to create directory", NoPath)
    [] outcome = "write" -> GenErr("failed to write file", NoPath)
    [] OTHER -> NilGenErr

\* Generate up to the loop over the rules: the output directory and the
\* directory structure are created, then the rules are computed.
\* failAt: 0 when MkdirAll fails on the output directory, k when it fails
\* on the k-th directory of the structure, more when it never fails.
GenerateBegin(failAt) ==
  LET dirs == createDirectoryStructure(gen.config) IN
  /\ gen.phase = "new"
  /\ gen' =
       IF failAt = 0
         THEN [gen EXCEPT !.phase = "failed",
                 !.err = GenErr("failed to create output directory", NoPath)]
       ELSE IF failAt <= Len(dirs)
         THEN [gen EXCEPT !.phase = "failed",
                 !.dirs = {"."} \cup {dirs[i] : i \in 1 .. failAt - 1},
                 !.err = GenErr("failed to create directory structure",
                                Path(dirs[failAt], "", ""))]
       ELSE [gen EXCEPT !.phase = "running",
               !.dirs = {"."} \cup Range(dirs),
               !.rules = SelectSeq(getFileGenerationRules(gen.config),
                                   ruleApplies),
               !.data = getTemplateData(gen.config)]
  /\ UNCHANGED <<wizardVars, sub, reg, dep, cli>>

GenerateNextFile_ContinueAfterFailure(outcome) ==
  /\ gen.phase = "running"
  /\ gen.ri <= Len(gen.rules)
  /\ LET rule == gen.rules[gen.ri]
         file == rule.files[gen.fi]
         condDirs == IF gen.fi = 1 THEN conditionDirs(rule.condition) ELSE {}
         lastOfRule == gen.fi = Len(rule.files)
         lastOfAll == lastOfRule /\ gen.ri = Len(gen.rules)
         executed == IF IsTemplate(file) /\ outcome \notin {"load", "parse"}
                       THEN <<gen.data>> ELSE << >>
     IN /\ outcome \in OutcomesOf(file)
        /\ gen' =
             [gen EXCEPT
                !.dirs = @ \cup condDirs \cup
                         (IF outcome \in {"ok", "write"}
                            THEN {file.outputPath.dir} ELSE {}),
                !.written = IF outcome = "ok" THEN Append(@, file) ELSE @,
                !.perms = IF outcome = "ok"
                            THEN Append(@, FilePerm(file.outputPath)) ELSE @,
                !.attempted = @ + 1,
                !.rendered = @ \o executed,
                !.ri = IF lastOfRule THEN @ + 1 ELSE @,
                !.fi = IF lastOfRule THEN 1 ELSE @ + 1,
                !.phase = IF lastOfAll
                            THEN (IF outcome = "ok" /\ gen.err = NilGenErr
                                    THEN "done" ELSE "failed")
                            ELSE @,
                !.err = IF outcome = "ok" THEN @ ELSE FileErr(file, outcome)]
  /\ UNCHANGED <<wizardVars, sub, reg, dep, cli>>

\* One turn of the loop of generateFiles: the next file of the current
\* rule; before the first file of a rule its condition has run.
GenerateNextFile(outcome) ==
  /\ gen.phase = "running"
  /\ gen.ri <= Len(gen.rules)
  /\ LET rule == gen.rules[gen.ri]
         file == rule.files[gen.fi]
         condDirs == IF gen.fi = 1 THEN conditionDirs(rule.condition) ELSE {}
         lastOfRule == gen.fi = Len(rule.files)
         lastOfAll == lastOfRule /\ gen.ri = Len(gen.rules)
         \* tmpl.Execute has run with the data unless the load failed
         executed == IF IsTemplate(file) /\ outcome \notin {"load", "parse"}
                       THEN <<gen.data>> ELSE << >>
     IN /\ outcome \in OutcomesOf(file)
        /\ gen' =
             IF outcome = "ok"
               THEN [gen EXCEPT
                       !.dirs = @ \cup condDirs \cup {file.outputPath.dir},
                       !.written = Append(@, file),
                       !.perms = Append(@, FilePerm(file.outputPath)),
                       !.attempted = @ + 1,
                       !.rendered = @ \o executed,
                       !.ri = IF lastOfRule THEN @ + 1 ELSE @,
                       !.fi = IF lastOfRule THEN 1 ELSE @ + 1,
                       !.phase = IF lastOfAll THEN "done" ELSE @]
               ELSE [gen EXCEPT
                       !.dirs = @ \cup condDirs \cup
                                (IF outcome = "write"
                                   THEN {file.outputPath.dir} ELSE {}),
                       !.attempted = @ + 1,
                       !.rendered = @ \o executed,
                       !.phase = "failed",
                       !.err = FileErr(file, outcome)]
  /\ UNCHANGED <<wizardVars, sub, reg, dep, cli>>

NextGenerate ==
  \/ \E failAt \in 0 .. Len(createDirectoryStructure(gen.config)) + 1 :
       GenerateBegin(failAt)
  \/ \E outcome \in Outcomes : GenerateNextFile(outcome)

\* A run of Generator.Generate on one of the configurations
InitGenerate ==
  /\ WizardInit
  /\ gen \in {NewGenerator(config) : config \in GenConfigs}
  /\ sub = NoSubstitution
  /\ reg = NoRegionCall
  /\ dep = NoDeployCall
  /\ cli = NoCreateCommand

SpecGenerate == InitGenerate /\ [][NextGenerate]_vars

\* -------------------------------------------- the closure of Model.deploy

\* The arguments of Model.deploy: output directories and project names
DeployOutputDirs == {<<"./", "a">>, <<"./", "b">>, <<"out">>}
DeployProjectNames == {<<"a">>, <<"b">>, <<"postservice">>}

\* What cmd.CombinedOutput() captures
DeployOutputs == {<< >>, <<"Error:", "name taken">>, <<"timeout">>}

\* Model.deploy(outputDir, projectName): the closure is about to run
NewDeploy(outputDir, projectName) ==
  [ phase |-> "lookFlyctl",
    outputDir |-> outputDir,
    projectName |-> projectName,
    flyCmd |-> "",
    probes |-> << >>,     \* the names exec.LookPath was called with
    invoked |-> << >>,    \* the processes started
    msg |-> [type |-> "none"] ]

\* exec.LookPath("flyctl"); found: err == nil && path != ""
DeployLookPathFlyctl(found) ==
  /\ dep.phase = "lookFlyctl"
  /\ dep' = [dep EXCEPT !.probes = Append(@, "flyctl"),
                        !.flyCmd = IF found THEN "flyctl" ELSE @,
                        !.phase = IF found THEN "found" ELSE "lookFly"]
  /\ UNCHANGED <<wizardVars, gen, sub, reg, cli>>

\* exec.LookPath("fly")
DeployLookPathFly(found) ==
  /\ dep.phase = "lookFly"
  /\ dep' = [dep EXCEPT !.probes = Append(@, "fly"),
                        !.flyCmd = IF found THEN "fly" ELSE @,
                        !.phase = IF found THEN "found" ELSE "notFound"]
  /\ UNCHANGED <<wizardVars, gen, sub, reg, cli>>

\* if flyCmd == "": the closure returns its message
DeployNotFound ==
  /\ dep.phase = "notFound"
  /\ dep' = [dep EXCEPT !.phase = "returned",
                        !.msg = DeployResult(FALSE, FALSE, FALSE)]
  /\ UNCHANGED <<wizardVars, gen, sub, reg, cli>>

DeployLaunch_NoDir(runOK, output) ==
  /\ dep.phase = "found"
  /\ LET flyctl == dep.flyCmd = "flyctl"
         fly == dep.flyCmd = "fly"
         result == DeployResult(flyctl, fly, runOK)
     IN dep' = [dep EXCEPT
                  !.phase = "returned",
                  !.invoked = Append(@,
                     [args |-> DeployInvoked(flyctl, fly, dep.projectName)[1],
                      dir |-> << >>,
                      ok |-> runOK,
                      output |-> output]),
                  !.msg = IF runOK THEN result
                          ELSE [result EXCEPT
                                  !.Error = @ \o <<"Output:">> \o output]]
  /\ UNCHANGED <<wizardVars, gen, sub, reg, cli>>

\* exec.Command, cmd.Dir = outputDir, cmd.CombinedOutput(): the process
\* runs to its end, and the closure returns its message
DeployLaunch(runOK, output) ==
  /\ dep.phase = "found"
  /\ LET flyctl == dep.flyCmd = "flyctl"
         fly == dep.flyCmd = "fly"
         result == DeployResult(flyctl, fly, runOK)
     IN dep' = [dep EXCEPT
                  !.phase = "returned",
                  !.invoked = Append(@,
                     [args |-> DeployInvoked(flyctl, fly, dep.projectName)[1],
                      dir |-> dep.outputDir,
                      ok |-> runOK,
                      output |-> output]),
                  !.msg = IF runOK THEN result
                          ELSE [result EXCEPT
                                  !.Error = @ \o <<"Output:">> \o output]]
  /\ UNCHANGED <<wizardVars, gen, sub, reg, cli>>

NextDeploy ==
  \/ \E found \in BOOLEAN : DeployLookPathFlyctl(found)
  \/ \E found \in BOOLEAN : DeployLookPathFly(found)
  \/ DeployNotFound
  \/ \E runOK \in BOOLEAN, output \in DeployOutputs : DeployLaunch(runOK, output)

InitDeploy ==
  /\ WizardInit
  /\ gen = NoGenerator
  /\ sub = NoSubstitution
  /\ reg = NoRegionCall
  /\ dep \in {NewDeploy(outputDir, projectName) :
                outputDir \in DeployOutputDirs,
                projectName \in DeployProjectNames}
  /\ cli = NoCreateCommand

SpecDeploy == InitDeploy /\ [][NextDeploy]_vars

\* ------------------------------------------------------ the region mapper

\* The tokens of an input of awsRegionToFlyRegion: the keys of the table,
\* a key in capitals, a region the table does not hold and other text
RegionTokens ==
  DOMAIN regionMap \cup {"EU-WEST-1", "xx-unknown-1", "x"}

RECURSIVE RegionInputs(_)
RegionInputs(n) ==
  IF n = 0 THEN {<< >>}
  ELSE LET shorter == RegionInputs(n - 1)
       IN shorter \cup {Append(q, x) : q \in shorter, x \in RegionTokens}

\* awsRegionToFlyRegion is called with awsRegion
NewRegionCall(awsRegion) ==
  [phase |-> "called", awsRegion |-> awsRegion, flyRegion |-> ""]

\* awsRegionToFlyRegion returns
RegionReturn ==
  /\ reg.phase = "called"
  /\ reg' = [reg EXCEPT !.phase = "returned",
                        !.flyRegion = awsRegionToFlyRegion(reg.awsRegion)]
  /\ UNCHANGED <<wizardVars, gen, sub, dep, cli>>

NextRegion == RegionReturn

InitRegion ==
  /\ WizardInit
  /\ gen = NoGenerator
  /\ sub = NoSubstitution
  /\ reg \in {NewRegionCall(awsRegion) : awsRegion \in RegionInputs(MaxRegion)}
  /\ dep = NoDeployCall
  /\ cli = NoCreateCommand

SpecRegion == InitRegion /\ [][NextRegion]_vars

\* ------------------------------------------------- placeholder substitution

\* Text is a sequence of tokens; no text that is searched for begins or
\* ends inside a token, so that a match of strings.ReplaceAll is a match of
\* whole tokens.
\* PlaceholderModulePath = "github.com/acme/postservice": it ends with
\* PlaceholderProjectName.
PlaceholderProjectName == <<"postservice">>
PlaceholderModulePath == <<"github.com/acme/">> \o PlaceholderProjectName
StaticModulePath ==
  <<"github.com/andrewho/create-go-api/internal/generator/static">>

\* strings.ReplaceAll for a non-empty old: the non-overlapping occurrences
\* of old, from the left, are replaced by new.
RECURSIVE ReplaceAll(_, _, _)
ReplaceAll(content, old, new) ==
  IF Len(content) < Len(old) THEN content
  ELSE IF SubSeq(content, 1, Len(old)) = old
    THEN new \o ReplaceAll(SubSeq(content, Len(old) + 1, Len(content)),
                           old, new)
  ELSE <<Head(content)>> \o ReplaceAll(Tail(content), old, new)

\* replaceModulePath
replaceModulePath(content, modulePath) ==
  LET c1 == ReplaceAll(content, StaticModulePath \o <<"/internal">>,
                       modulePath \o <<"/internal">>)
      c2 == ReplaceAll(c1, StaticModulePath \o <<"/internal", "/protos", "/gen">>,
                       modulePath \o <<"/internal", "/protos", "/gen">>)
      c3 == ReplaceAll(c2, StaticModulePath \o <<"/protos">>,
                       modulePath \o <<"/protos">>)
  IN ReplaceAll(c3, PlaceholderModulePath, modulePath)

\* replaceProjectName
replaceProjectName(content, projectName) ==
  ReplaceAll(content, PlaceholderProjectName, projectName)

\* The two build-exclusion marker lines copyFile removes, and a line feed
GoBuildIgnore == "//go:build ignore\n"
PlusBuildIgnore == "// +build ignore\n"
LineFeed == "\n"

\* strings.Contains(sourcePath, ".go"): ".go" occurs in the file name or is
\* the extension (no directory of the catalog holds ".go")
ContainsGo(path) ==
  \/ path.ext = ".go"
  \/ path.name \in {"main_chi.go", "main_connectrpc.go", "converters.go"}

\* strings.TrimPrefix(contentStr, "\n")
TrimPrefixLineFeed(content) ==
  IF content # << >> /\ Head(content) = LineFeed THEN Tail(content)
  ELSE content

\* copyFile, lines 84-90: the marker lines are removed from a source whose
\* path holds ".go", then one leading line feed
RemoveBuildTags(content, sourcePath) ==
  IF ContainsGo(sourcePath)
    THEN TrimPrefixLineFeed(
           ReplaceAll(ReplaceAll(content, <<GoBuildIgnore>>, << >>),
                      <<PlusBuildIgnore>>, << >>))
    ELSE content

\* The tokens of the content of a source file: the placeholders, the
\* sub-paths, the marker lines, a line feed and other text.
ContentTokens ==
  {"github.com/acme/", "postservice",
   "github.com/andrewho/create-go-api/internal/generator/static",
   "/internal", "/protos", "/gen", "/cmd",
   GoBuildIgnore, PlusBuildIgnore, LineFeed}

RECURSIVE SeqsUpTo(_, _)
SeqsUpTo(S, n) ==
  IF n = 0 THEN {<< >>}
  ELSE LET shorter == SeqsUpTo(S, n - 1)
       IN shorter \cup {Append(q, x) : q \in shorter, x \in S}

Contents == SeqsUpTo(ContentTokens, MaxContent)

\* Module paths and project names of the user: the create command and the
\* wizard pass them on as typed; the project name is not empty.
UserModulePaths == {<<"example.com/blog">>, <<"example.com/", "postservice">>}
UserProjectNames == {<<"blog">>, <<"postservice">>}

\* Sources of the catalog: a static Go file, a static file that is not Go,
\* the template of a Go file and the template of a file that is not Go
SourcePaths ==
  { Path("static/internal/config", "config", ".go"),
    Path("static", "Dockerfile", ""),
    Path("templates/cmd/api", "main_chi.go", ".tmpl"),
    Path("templates/deploy", "fly.toml", ".tmpl") }

\* The content of one source, read (copyFile) or rendered (generateFile)
NewSubstitution(content, modulePath, projectName, sourcePath) ==
  [ phase |-> "source", content |-> content, modulePath |-> modulePath,
    projectName |-> projectName, sourcePath |-> sourcePath,
    out |-> content ]

\* contentStr = replaceModulePath(contentStr, g.config.ModulePath)
ReplaceModulePathStep ==
  /\ sub.phase = "source"
  /\ sub' = [sub EXCEPT !.phase = "modulePath",
                        !.out = replaceModulePath(sub.out, sub.modulePath)]
  /\ UNCHANGED <<wizardVars, gen, reg, dep, cli>>

\* contentStr = replaceProjectName(contentStr, g.config.ProjectName)
ReplaceProjectNameStep ==
  /\ sub.phase = "modulePath"
  /\ sub' = [sub EXCEPT !.phase = "projectName",
                        !.out = replaceProjectName(sub.out, sub.projectName)]
  /\ UNCHANGED <<wizardVars, gen, reg, dep, cli>>

\* The rest of copyFile: the build tags are removed and the content is
\* written
CopyFileWrite ==
  /\ sub.phase = "projectName"
  /\ sub.sourcePath.ext # ".tmpl"
  /\ sub' = [sub EXCEPT !.phase = "written",
                        !.out = RemoveBuildTags(sub.out, sub.sourcePath)]
  /\ UNCHANGED <<wizardVars, gen, reg, dep, cli>>

\* The rest of generateFile: the content is written as it is
GenerateFileWrite ==
  /\ sub.phase = "projectName"
  /\ sub.sourcePath.ext = ".tmpl"
  /\ sub' = [sub EXCEPT !.phase = "written"]
  /\ UNCHANGED <<wizardVars, gen, reg, dep, cli>>

NextSubstitute ==
  \/ ReplaceModulePathStep
  \/ ReplaceProjectNameStep
  \/ CopyFileWrite
  \/ GenerateFileWrite

InitSubstitute ==
  /\ WizardInit
  /\ gen = NoGenerator
  /\ sub \in { NewSubstitution(content, modulePath, projectName, sourcePath) :
                 content \in Contents, modulePath \in UserModulePaths,
                 projectName \in UserProjectNames,
                 sourcePath \in SourcePaths }
  /\ reg = NoRegionCall
  /\ dep = NoDeployCall
  /\ cli = NoCreateCommand

SpecSubstitute == InitSubstitute /\ [][NextSubstitute]_vars

\* ------------------------------------------------------ the create command

\* The values of the flags of the create command; an empty value is a flag
\* that was not given.
CreateFlags ==
  [ projectName : {<< >>, <<"a">>},
    modulePath : {<< >>, <<"github.com/user/", "a">>},
    outputDir : {<< >>, <<"./", "out">>},
    driver : {"", "postgres", "dynamodb", "mysql"},
    framework : {"", "chi", "connectrpc", "gin"},
    deploy : BOOLEAN, interactive : BOOLEAN ]

\* What os.Stat and os.ReadDir find at the output directory.
DirStates == {"absent", "file", "emptyDir", "nonEmptyDir", "unreadableDir"}

AllowedDatabases == {"postgres", "dynamodb"}
IsValidDatabase(db) == db \in AllowedDatabases

AllowedFrameworks == {"chi", "connectrpc"}
IsValidFramework(fw) == fw \in AllowedFrameworks

\* A run of the create command with the flags parsed by cobra.
NewCreateCommand(flags, dirState) ==
  [ phase |-> "start", flags |-> flags, dirState |-> dirState,
    outputDir |-> flags.outputDir, cfg |-> ZeroConfig, generated |-> FALSE,
    err |-> NilErr ]

\* The create command runs the wizard, which reads none of the flags.
TUICommand == [phase |-> "tui"]

\* validateFlags: the error it returns and the output directory it leaves
\* in the package variable
validateFlags(flags, dirState) ==
  LET dir == IF flags.outputDir = << >> THEN flags.projectName
             ELSE flags.outputDir
  IN IF flags.projectName = << >>
       THEN [err |-> <<"project name is required">>,
             outputDir |-> flags.outputDir]
     ELSE IF ~IsValidDatabase(flags.driver)
       THEN [err |-> <<"invalid database driver">>,
             outputDir |-> flags.outputDir]
     ELSE IF ~IsValidFramework(flags.framework)
       THEN [err |-> <<"invalid framework">>,
             outputDir |-> flags.outputDir]
     ELSE IF dirState = "nonEmptyDir"
       THEN [err |-> <<"directory already exists and is not empty">>,
             outputDir |-> dir]
     ELSE [err |-> NilErr, outputDir |-> dir]

\* RunE's test of the flags that select the direct mode
flagsProvided(flags) ==
  \/ flags.projectName # << >>
  \/ flags.modulePath # << >>
  \/ flags.outputDir # << >>
  \/ flags.driver # ""
  \/ flags.framework # ""

\* The ProjectConfig RunE builds from the flags
CreateConfig(flags, outputDir) ==
  [ ProjectName |-> flags.projectName,
    ModulePath |-> flags.modulePath,
    OutputDir |-> outputDir,
    Database |-> [ Type |-> flags.driver,
                   AWSAccessKeyID |-> << >>,
                   AWSSecretKey |-> << >>,
                   AWSRegion |-> << >> ],
    Framework |-> flags.framework,
    Deploy |-> flags.deploy ]

\* RunE up to its call of gen.Generate(): the wizard is run when
\* --interactive is set or no flag selects the direct mode; otherwise the
\* flags are validated and the generator is constructed.
CreateRunE ==
  /\ cli.phase = "start"
  /\ cli' =
       IF cli.flags.interactive \/ ~flagsProvided(cli.flags)
         THEN TUICommand
       ELSE LET v == validateFlags(cli.flags, cli.dirState)
            IN IF v.err # NilErr
                 THEN [cli EXCEPT !.phase = "returned", !.err = v.err,
                                  !.outputDir = v.outputDir]
                 ELSE [cli EXCEPT !.phase = "generating",
                                  !.outputDir = v.outputDir,
                                  !.cfg = CreateConfig(cli.flags, v.outputDir),
                                  !.generated = TRUE]
  /\ UNCHANGED <<wizardVars, gen, sub, reg, dep>>

\* gen.Generate() returns and RunE returns its error, wrapped.
CreateGenerateReturn(generateOK) ==
  /\ cli.phase = "generating"
  /\ cli' = [cli EXCEPT !.phase = "returned",
                        !.err = IF generateOK THEN NilErr
                                ELSE <<"failed to generate project">>]
  /\ UNCHANGED <<wizardVars, gen, sub, reg, dep>>

NextCreate ==
  \/ CreateRunE
  \/ \E generateOK \in BOOLEAN : CreateGenerateReturn(generateOK)
  \* app.Run(): the wizard runs until it quits
  \/ cli.phase = "tui" /\ Next

InitCreate ==
  /\ WizardInit
  /\ gen = NoGenerator
  /\ sub = NoSubstitution
  /\ reg = NoRegionCall
  /\ dep = NoDeployCall
  /\ cli \in {NewCreateCommand(flags, dirState) :
                flags \in CreateFlags, dirState \in DirStates}

SpecCreate == InitCreate /\ [][NextCreate]_vars

\* ------------------------------------------------------------ the claims

Pending(type) == {p \in BagToSet(msgs) : p.msg.type = type}

ForwardPostgres ==
  <<StepWelcome, StepProjectName, StepModulePath, StepOutputDir,
    StepDatabaseSelection, StepFrameworkSelection, StepDeploySelection,
    StepReview, StepGenerating, StepComplete>>

ForwardDynamoDB ==
  <<StepWelcome, StepProjectName, StepModulePath, StepOutputDir,
    StepDatabaseSelection, StepAWSProfileSelection, StepAWSAccessKeyID,
    StepAWSSecretKey, StepAWSRegion, StepFrameworkSelection,
    StepDeploySelection, StepReview, StepGenerating, StepComplete>>

IsPrefix(a, b) == Len(a) <= Len(b) /\ a = SubSeq(b, 1, Len(a))

\* C1: one back (Esc) key event at a step among ProjectName..Review sets the
\* step to the one from which that step was entered on the forward path;
\* at Welcome it leaves the step unchanged.
C1_BackToPrecedingVisited ==
  [][ KeyMsg("esc") =>
        IF m.step = StepWelcome THEN m'.step = StepWelcome
        ELSE (m.step \in StepProjectName .. StepReview
                /\ enteredFrom[m.step] # -1)
               => m'.step = enteredFrom[m.step] ]_vars

\* C2: on a run made without back actions, the steps visited are, in order,
\* a prefix of the forward path of the database chosen: with PostgreSQL the
\* step after DatabaseSelection is FrameworkSelection and no AWS step is
\* ever current; with DynamoDB the four AWS steps are visited in order
\* before FrameworkSelection.
C2_ForwardBranching ==
  (backs = 0 /\ Len(trail) > 5) =>
    IF GetSelected(m.databaseSelect, databaseOptions) = "PostgreSQL"
      THEN /\ IsPrefix(trail, ForwardPostgres)
           /\ \A i \in DOMAIN trail : trail[i] \notin AWSSteps
      ELSE IsPrefix(trail, ForwardDynamoDB)

C2_Witness ==
  /\ backs = 0
  /\ m.step = StepReview
  /\ GetSelected(m.databaseSelect, databaseOptions) = "DynamoDB"
  /\ trail = SubSeq(ForwardDynamoDB, 1, 12)

\* C3: a confirm (Enter) at a text-field step with an empty buffer changes
\* nothing, and with a non-empty buffer moves to exactly the next step; at a
\* choice step a confirm advances only with a selection; a confirm never
\* skips a step other than the AWS steps skipped for PostgreSQL.
C3_ConfirmValidation ==
  [][ KeyMsg("enter") =>
        /\ m.step \in TextSteps =>
             IF Buffer(m, m.step) = << >>
               THEN m' = m
               ELSE m'.step = m.step + 1
        /\ m.step = StepDatabaseSelection =>
             /\ GetSelected(m'.databaseSelect, databaseOptions) # ""
             /\ m'.step =
                  IF GetSelected(m'.databaseSelect, databaseOptions) = "DynamoDB"
                    THEN StepAWSProfileSelection ELSE StepFrameworkSelection
        /\ m.step = StepAWSProfileSelection =>
             /\ GetSelected(m'.awsProfileSelect, awsProfileOptions) # ""
             /\ m'.step = StepAWSAccessKeyID
        /\ m.step = StepFrameworkSelection =>
             /\ GetSelected(m'.frameworkSelect, frameworkOptions) # ""
             /\ m'.step = StepDeploySelection
        /\ \/ m'.step \in {m.step, m.step + 1}
           \/ /\ m.step = StepDatabaseSelection
              /\ m'.step = StepFrameworkSelection
              /\ GetSelected(m'.databaseSelect, databaseOptions) = "PostgreSQL"
    ]_vars

\* A confirm moved the wizard to ModulePath, whose buffer was then emptied.
C3_Witness ==
  /\ m.step = StepModulePath
  /\ enteredFrom[StepModulePath] = StepProjectName
  /\ m.modulePath = << >>
  /\ m.projectName # << >>

\* C4: when a GenerationErrorMsg is processed in Generating, the step
\* becomes Complete, the error is stored, generating is cleared and no
\* deployment is launched.
C4_GenerationFailureCompletes ==
  [][ \A p \in Pending("GenerationErrorMsg") :
        (GenerationErrorMsg(p) /\ m.step = StepGenerating) =>
          /\ m'.step = StepComplete
          /\ m'.err = p.msg.Err
          /\ ~m'.generating
          /\ deployLaunched' = deployLaunched
          /\ deployTasks' = deployTasks ]_vars

\* C5: when a DeploymentCompleteMsg carrying an error is processed, the
\* step becomes Complete and the view shown is the generation-success view
\* annotated with the deployment error, not the error view.
C5_DeploymentFailureNonFatal ==
  [][ \A p \in Pending("DeploymentCompleteMsg") :
        (DeploymentCompleteMsg(p) /\ p.msg.Error # NilErr) =>
          /\ m'.step = StepComplete
          /\ View(m') = "GeneratedDeploymentFailed" ]_vars

\* C6: with no key after the confirm at Review, processing a
\* GenerationCompleteMsg without deploy-now sets the step to Complete, clears
\* generating and launches no deployment; with deploy-now it keeps the step
\* at Generating with deploying set and launches exactly one deployment
\* task; a deployment is launched only when deploy-now is chosen, and at most
\* once; while deploying, the step becomes Complete only by processing a
\* DeploymentCompleteMsg, which clears generating and deploying; and once a
\* generation has succeeded the wizard eventually is at Complete with both
\* flags cleared.
C6_SuccessPath ==
  /\ [][ \A p \in Pending("GenerationCompleteMsg") :
           GenerationCompleteMsg(p) =>
             IF p.msg.ShouldDeploy
               THEN /\ m'.step = StepGenerating
                    /\ m'.deploying
                    /\ deployLaunched' = deployLaunched + 1
                    /\ BagCardinality(deployTasks') = 1
               ELSE /\ m'.step = StepComplete
                    /\ ~m'.generating
                    /\ deployLaunched' = deployLaunched
                    /\ deployTasks' = deployTasks ]_vars
  /\ [][ (m.deploying /\ m'.step = StepComplete) =>
           /\ \E p \in Pending("DeploymentCompleteMsg") : DeploymentCompleteMsg(p)
           /\ ~m'.generating
           /\ ~m'.deploying ]_vars
  /\ [](deployLaunched <= 1)
  /\ [](deployLaunched = 1 => GetChoice(m.deployConfirm))
  /\ [](m.step = StepComplete => (~m.generating /\ ~m.deploying))
  /\ (Pending("GenerationCompleteMsg") # {})
       ~> (m.step = StepComplete /\ ~m.generating /\ ~m.deploying)

\* A deployment was launched and its completion message processed.
C6_Witness ==
  /\ m.step = StepComplete
  /\ deployLaunched = 1
  /\ deployTasks = EmptyBag
  /\ Pending("DeploymentCompleteMsg") = {}
  /\ ~m.generating
  /\ ~m.deploying

\* C7: at most one generation task and at most one deployment task is in
\* flight.
C7_OneRunInFlight ==
  /\ BagCardinality(genTasks) <= 1
  /\ BagCardinality(deployTasks) <= 1

\* C8: a generation or deployment task never writes a field of the wizard
\* state; only the event loop does.
C8_SingleWriter ==
  [][ ( \/ \E t \in BagToSet(genTasks) : GenerateRead(t)
        \/ \E t \in BagToSet(genTasks) :
             \E generateErr \in {NilErr, ErrGenerate} :
               GenerateReturn(t, generateErr)
        \/ \E t \in BagToSet(deployTasks) :
             \E flyctlFound \in BOOLEAN, flyFound \in BOOLEAN, runOK \in BOOLEAN :
               DeployRun(t, flyctlFound, flyFound, runOK) )
      => m' = m ]_vars

\* C9: the ProjectConfig a generation run uses, and its deploy-now
\* decision, are those of the state in which Enter was processed at Review.
C9_ConfigSnapshotAtReview ==
  /\ \A t \in BagToSet(genTasks) :
       t.phase = "generating" => t.cfg = t.atEnter.cfg
  /\ \A p \in Pending("GenerationCompleteMsg") :
       p.msg.ShouldDeploy = p.deployNowAtEnter

\* C10: once the wizard is at Complete or has received a failure, no key
\* event moves it to a configuration step or launches a generation or a
\* deployment.
C10_TerminalNeverResumes ==
  [][ ((\E k \in Keys : KeyMsg(k))
        /\ (m.step = StepComplete \/ m.err # NilErr)) =>
        /\ m'.step = m.step \/ m'.step \in {StepGenerating, StepComplete}
        /\ genLaunched' = genLaunched
        /\ deployLaunched' = deployLaunched ]_vars

\* C11: in every step, tasks in flight or not, a ctrl+c key event returns
\* the quit command at once and changes neither the step, the buffers, the
\* flags, the tasks in flight nor the messages posted.
C11_GlobalQuit ==
  /\ [](\A creds \in CredentialLookups :
          UpdateKey(m, "ctrl+c", creds) = Ret(m, "quit"))
  /\ [][ KeyMsg("ctrl+c") =>
           /\ ~running'
           /\ m' = m
           /\ genTasks' = genTasks
           /\ deployTasks' = deployTasks
           /\ msgs' = msgs ]_vars

\* The wizard was quit in Generating while a generation task was running.
C11_Witness ==
  /\ ~running
  /\ m.step = StepGenerating
  /\ m.generating
  /\ genTasks # EmptyBag

\* C12: when a tick is pending and the step is not Generating, processing
\* the tick returns no command that schedules a further tick.
C12_TickOnlyWhileGenerating ==
  (ticking /\ m.step # StepGenerating) => UpdateTick(m).cmd # "tick"

\* C13: a generation task is launched only by an Enter key event processed
\* at Review, one per event; a deployment task only by processing a
\* GenerationCompleteMsg with ShouldDeploy set, one per message; processing
\* a GenerationErrorMsg or a DeploymentCompleteMsg launches nothing; a
\* deployment task starts the external tool at most once and posts one
\* message.
C13_NoAutomaticRetry ==
  /\ [][ genLaunched' # genLaunched =>
           /\ KeyMsg("enter")
           /\ m.step = StepReview
           /\ genLaunched' = genLaunched + 1
           /\ BagCardinality(genTasks') = BagCardinality(genTasks) + 1 ]_vars
  /\ [][ deployLaunched' # deployLaunched =>
           /\ \E p \in Pending("GenerationCompleteMsg") :
                GenerationCompleteMsg(p) /\ p.msg.ShouldDeploy
           /\ deployLaunched' = deployLaunched + 1
           /\ BagCardinality(deployTasks') = BagCardinality(deployTasks) + 1
         ]_vars
  /\ [][ BagCardinality(genTasks') > BagCardinality(genTasks)
           => genLaunched' # genLaunched ]_vars
  /\ [][ BagCardinality(deployTasks') > BagCardinality(deployTasks)
           => deployLaunched' # deployLaunched ]_vars
  /\ [][ ( \/ \E p \in Pending("GenerationErrorMsg") : GenerationErrorMsg(p)
           \/ \E p \in Pending("DeploymentCompleteMsg") :
                DeploymentCompleteMsg(p) )
           => /\ genTasks' = genTasks
              /\ deployTasks' = deployTasks
              /\ genLaunched' = genLaunched
              /\ deployLaunched' = deployLaunched ]_vars
  /\ [][ \A t \in BagToSet(deployTasks) :
           \A flyctlFound \in BOOLEAN, flyFound \in BOOLEAN, runOK \in BOOLEAN :
             DeployRun(t, flyctlFound, flyFound, runOK) =>
               /\ Len(DeployInvoked(flyctlFound, flyFound, t.projectName)) <= 1
               /\ BagCardinality(deployTasks') = BagCardinality(deployTasks) - 1
               /\ BagCardinality(msgs') = BagCardinality(msgs) + 1 ]_vars

\* A deployment failed and its message was processed: nothing is running.
C13_Witness ==
  /\ genLaunched = 1
  /\ deployLaunched = 1
  /\ Contains(m.err, "deployment")
  /\ m.step = StepComplete
  /\ genTasks = EmptyBag
  /\ deployTasks = EmptyBag
  /\ msgs = EmptyBag

\* The rules have been computed by the run.
Planned == gen.phase \in {"running", "done"}

\* The configurations equal to config in database type, framework and
\* deploy flag.
SameChoices(config) ==
  { c \in GenConfigs :
      /\ c.Database.Type = config.Database.Type
      /\ c.Framework = config.Framework
      /\ c.Deploy = config.Deploy }

\* C14: the plan a run has computed equals, entry by entry and in order,
\* the plan computed again from every configuration with the same database
\* type, framework and deploy flag.
C14_PlanDeterminism ==
  Planned =>
    \A c \in SameChoices(gen.config) :
      /\ Plan(c) = Flatten(gen.rules)
      /\ gen.phase = "done" => gen.written = Plan(c)

\* A finished run whose configuration has other configurations with the
\* same three choices.
C14_Witness ==
  /\ gen.phase = "done"
  /\ gen.config.ProjectName = <<"b">>
  /\ gen.config.Database.AWSRegion = <<"eu-west-1">>
  /\ gen.config.Database.Type = DatabaseTypeDynamoDB
  /\ \E c \in SameChoices(gen.config) : c # gen.config

\* The file mappings of the rule of one database type, of one framework.
DatabaseFiles(dbType) ==
  Range(Flatten(databaseRules([Database |-> [Type |-> dbType]])))

FrameworkFiles(framework) ==
  Range(Flatten(frameworkRules([Framework |-> framework])))

\* C15: the plan of a run contains all file mappings of the rule of exactly
\* one database type and none of the other's, and all file mappings of the
\* rule of exactly one framework and none of the other's.
C15_MutualExclusivity ==
  Planned =>
    LET plan == Range(Flatten(gen.rules))
        pg == DatabaseFiles(DatabaseTypePostgres)
        dy == DatabaseFiles(DatabaseTypeDynamoDB)
        chi == FrameworkFiles(FrameworkTypeChi)
        crpc == FrameworkFiles(FrameworkTypeConnectRPC)
    IN /\ pg # {} /\ dy # {} /\ chi # {} /\ crpc # {}
       /\ \/ pg \subseteq plan /\ dy \cap plan = {}
          \/ dy \subseteq plan /\ pg \cap plan = {}
       /\ \/ chi \subseteq plan /\ crpc \cap plan = {}
          \/ crpc \subseteq plan /\ chi \cap plan = {}
       /\ Len(databaseRules(gen.config)) = 1
       /\ Len(frameworkRules(gen.config)) = 1

C15_Witness ==
  /\ gen.phase = "done"
  /\ gen.config.Database.Type = DatabaseTypeDynamoDB
  /\ gen.config.Framework = FrameworkTypeConnectRPC
  /\ DatabaseFiles(DatabaseTypeDynamoDB) \subseteq Range(gen.written)

\* C16: no output path occurs twice in the plan of a run, nor among the
\* files the run has written.
C16_UniqueOutputPaths ==
  /\ Planned =>
       LET plan == Flatten(gen.rules)
       IN \A i, j \in DOMAIN plan :
            i # j => plan[i].outputPath # plan[j].outputPath
  /\ gen.phase # "none" =>
       \A i, j \in DOMAIN gen.written :
         i # j => gen.written[i].outputPath # gen.written[j].outputPath

\* The longest plan (DynamoDB, ConnectRPC, deploy) has been written.
C16_Witness ==
  /\ gen.phase = "done"
  /\ gen.config.Deploy
  /\ gen.config.Database.Type = DatabaseTypeDynamoDB
  /\ gen.config.Framework = FrameworkTypeConnectRPC
  /\ Len(gen.written) = Len(Plan(gen.config))
  /\ Len(gen.written) > 30

\* The output paths of the deployment scripts and manifests.
DeploymentOutputs ==
  { Path("scripts", "deploy", ".sh"), Path("scripts", "destroy", ".sh"),
    Path(".", "fly", ".toml"), Path(".", "Dockerfile", ""),
    Path(".github/workflows", "deploy", ".yml") }

\* C17: each deployment script and manifest is in the plan if and only if
\* config.Deploy; the plan of {postgres, chi, no deploy} has no fly.toml,
\* has the Postgres persistence files and the Chi entrypoint.
C17_DeploymentFilesFollowFlag ==
  Planned =>
    LET outputs == {f.outputPath : f \in Range(Flatten(gen.rules))}
    IN /\ \A p \in DeploymentOutputs : (p \in outputs) <=> gen.config.Deploy
       /\ ( /\ gen.config.Database.Type = DatabaseTypePostgres
            /\ gen.config.Framework = FrameworkTypeChi
            /\ ~gen.config.Deploy )
          => /\ Path(".", "fly", ".toml") \notin outputs
             /\ { Path("internal/database", "postgres", ".go"),
                  Path("internal/posts", "postgres_table", ".go"),
                  Path(".", "schema", ".sql") } \subseteq outputs
             /\ fileMapping(Path("cmd/api", "main", ".go"),
                            Path("templates/cmd/api", "main_chi.go", ".tmpl"))
                  \in Range(Flatten(gen.rules))

C17_Witness ==
  /\ gen.phase = "done"
  /\ gen.config.Database.Type = DatabaseTypePostgres
  /\ gen.config.Framework = FrameworkTypeChi
  /\ ~gen.config.Deploy
  /\ Path(".", "schema", ".sql") \in {f.outputPath : f \in Range(gen.written)}

\* C18: the plan is the base files, the config files, the posts files and
\* the scripts, then the deploy scripts if config.Deploy, the files of the
\* database type, the files of the framework and the deployment files if
\* config.Deploy; the files written are at every moment the first files of
\* the plan, in plan order, and all of it when the run is done.
C18_RuleOrder ==
  /\ [](Planned =>
       LET plan == Flatten(gen.rules)
           always == baseRule.files \o configRule.files \o postsRule.files
                       \o scriptsRule.files
       IN /\ Len(always) = 21
          /\ IsPrefix(always, plan)
          /\ plan[1].outputPath = Path(".", "go", ".mod")
          /\ plan[10].outputPath = Path("internal/config", "stage", ".go")
          /\ plan[14].outputPath = Path("internal/posts", "post", ".go")
          /\ plan[19].outputPath = Path("scripts", "check-deps", ".sh")
          /\ plan = always
                    \o Flatten(deployScriptsRules(gen.config))
                    \o Flatten(databaseRules(gen.config))
                    \o Flatten(frameworkRules(gen.config))
                    \o Flatten(deploymentRules(gen.config))
          /\ gen.config.Deploy =>
               /\ plan[22].outputPath = Path("scripts", "deploy", ".sh")
               /\ plan[Len(plan)].outputPath
                    = Path(".github/workflows", "deploy", ".yml")
          /\ plan[Len(always) + Len(Flatten(deployScriptsRules(gen.config))) + 1]
               .outputPath.dir = "internal/database"
          /\ IsPrefix(gen.written, plan)
          /\ gen.phase = "done" => gen.written = plan)
  /\ [](gen.phase = "failed" => IsPrefix(gen.written, Plan(gen.config)))
  /\ [][ gen'.written # gen.written =>
           /\ Len(gen'.written) = Len(gen.written) + 1
           /\ gen'.written
                = SubSeq(Plan(gen.config), 1, Len(gen.written) + 1) ]_vars

\* A run with deploy that has written into the framework files.
C18_Witness ==
  /\ gen.phase = "running"
  /\ gen.config.Deploy
  /\ gen.config.Framework = FrameworkTypeConnectRPC
  /\ Len(gen.written) = 31

\* text occurs in content
Occurs(text, content) ==
  \E i \in 1 .. Len(content) - Len(text) + 1 :
    SubSeq(content, i, i + Len(text) - 1) = text

\* C19: the content written after the two substitutions contains neither
\* the placeholder module path, nor the static module path, nor the
\* placeholder project name.
C19_PlaceholderElimination ==
  (sub.phase = "written" /\ sub.projectName # << >>) =>
    /\ ~Occurs(PlaceholderModulePath, sub.out)
    /\ ~Occurs(StaticModulePath, sub.out)
    /\ ~Occurs(PlaceholderProjectName, sub.out)

\* The content in which every occurrence of the placeholder module path,
\* and of the static module path before /internal or /protos, is replaced
\* by modulePath, and every other occurrence of the placeholder project
\* name by projectName, in one pass over the source.
RECURSIVE SubstitutedOnce(_, _, _)
SubstitutedOnce(content, modulePath, projectName) ==
  IF content = << >> THEN << >>
  ELSE IF IsPrefix(PlaceholderModulePath, content)
    THEN modulePath
           \o SubstitutedOnce(SubSeq(content, Len(PlaceholderModulePath) + 1,
                                     Len(content)), modulePath, projectName)
  ELSE IF \/ IsPrefix(StaticModulePath \o <<"/internal">>, content)
          \/ IsPrefix(StaticModulePath \o <<"/protos">>, content)
    THEN modulePath \o SubstitutedOnce(Tail(content), modulePath, projectName)
  ELSE IF IsPrefix(PlaceholderProjectName, content)
    THEN projectName \o SubstitutedOnce(Tail(content), modulePath, projectName)
  ELSE <<Head(content)>> \o SubstitutedOnce(Tail(content), modulePath, projectName)

\* C20: in the content the two passes hand to the write, each occurrence of the placeholder module
\* path and of the static module path before a sub-path has become exactly
\* the module path followed by the same sub-path, and the project-name pass
\* has changed nothing of the module path inserted.
C20_ModulePathExact ==
  sub.phase = "projectName" =>
    sub.out = SubstitutedOnce(sub.content, sub.modulePath, sub.projectName)

\* C21: the content written is the same for a copied and for a rendered
\* source of the same content, module path and project name: the two
\* substitutions, then, for a source-like (.go) source of either class, the
\* build-exclusion marker lines and a leading line feed removed.
C21_OneSubstitution ==
  sub.phase = "written" =>
    sub.out = RemoveBuildTags(
                replaceProjectName(replaceModulePath(sub.content, sub.modulePath),
                                   sub.projectName),
                sub.sourcePath)

\* C22: when the write of the k-th planned file fails the run has failed at
\* once: the k-th call of copyFile or generateFile is the last one, the
\* files written are the first k-1 files of the plan, in order, and nothing
\* after them has been written or attempted.
C22_FailFastWrite ==
  /\ gen.attempted \in {Len(gen.written), Len(gen.written) + 1}
  /\ gen.attempted = Len(gen.written) + 1 => gen.phase = "failed"
  /\ gen.err.msg = "failed to write file" =>
       /\ gen.phase = "failed"
       /\ gen.attempted = Len(gen.written) + 1
       /\ gen.attempted <= Len(Plan(gen.config))
       /\ gen.written = SubSeq(Plan(gen.config), 1, gen.attempted - 1)

\* The write of the third planned file has failed
C22_Witness ==
  /\ gen.phase = "failed"
  /\ gen.err.msg = "failed to write file"
  /\ gen.attempted = 3
  /\ Len(gen.written) = 2

\* C23: when the write of a planned file fails, the error of the run names
\* the path of that file.
C23_WriteFailureNamesFile ==
  (gen.phase = "failed" /\ gen.err.msg = "failed to write file") =>
    gen.err.path = Plan(gen.config)[gen.attempted].outputPath

\* The errors of a source that cannot be read, parsed or executed
SourceErrors ==
  {"failed to read source file",
   "failed to load template: failed to read template",
   "failed to load template: failed to parse template",
   "failed to execute template"}

\* C24: when the source of a planned entry cannot be read, or its template
\* cannot be parsed or executed, the run has failed at that entry with an
\* error that names the source path of the entry; the file of the entry is
\* not written and no later entry is processed.
C24_SourceErrorsFatal ==
  gen.err.msg \in SourceErrors =>
    /\ gen.phase = "failed"
    /\ gen.attempted = Len(gen.written) + 1
    /\ gen.attempted <= Len(Plan(gen.config))
    /\ gen.err.path = Plan(gen.config)[gen.attempted].templatePath
    /\ gen.written = SubSeq(Plan(gen.config), 1, gen.attempted - 1)
    /\ Plan(gen.config)[gen.attempted] \notin Range(gen.written)

\* The template of the second planned file, README.md, fails to execute
C24_Witness ==
  /\ gen.phase = "failed"
  /\ gen.err.msg = "failed to execute template"
  /\ gen.attempted = 2
  /\ gen.err.path = Path("templates/base", "README.md", ".tmpl")

\* C25: awsRegionToFlyRegion returns for every input: the entry of the
\* table when the input is a key of it (eu-west-1 gives ams), and iad for
\* every other input, the empty one included; nothing else changes.
C25_RegionMapperTotal ==
  /\ [](reg.phase = "returned" =>
          /\ (\E key \in DOMAIN regionMap : reg.awsRegion = <<key>>)
                => reg.flyRegion = regionMap[reg.awsRegion[1]]
          /\ (\A key \in DOMAIN regionMap : reg.awsRegion # <<key>>)
                => reg.flyRegion = "iad"
          /\ reg.awsRegion = <<"eu-west-1">> => reg.flyRegion = "ams")
  /\ [](reg.phase = "called" => ENABLED RegionReturn)
  /\ [][reg' # reg => UNCHANGED <<wizardVars, gen, sub, dep, cli>>]_vars

\* The mapper has returned the default for a text that begins with a key
C25_Witness ==
  /\ reg.phase = "returned"
  /\ reg.awsRegion = <<"eu-west-1", "x">>
  /\ reg.flyRegion = "iad"

\* C26: the FlyRegion of the template data is the result of the region
\* mapper for a DynamoDB configuration with a region (ams for eu-west-1) and
\* iad for a Postgres configuration or an empty region; the data is computed
\* once in a run and every template of the run is executed with it.
C26_FlyRegionInTemplateData ==
  /\ [](gen.phase \in {"running", "done"} => gen.data # NoTemplateData)
  /\ [](gen.data # NoTemplateData =>
          LET db == gen.config.Database IN
          /\ (db.Type = DatabaseTypeDynamoDB /\ db.AWSRegion # << >>)
                => gen.data.FlyRegion = awsRegionToFlyRegion(db.AWSRegion)
          /\ (db.Type = DatabaseTypeDynamoDB /\ db.AWSRegion = <<"eu-west-1">>)
                => gen.data.FlyRegion = "ams"
          /\ (db.Type = DatabaseTypePostgres \/ db.AWSRegion = << >>)
                => gen.data.FlyRegion = "iad"
          /\ \A i \in DOMAIN gen.rendered : gen.rendered[i] = gen.data)
  /\ [][gen.data # NoTemplateData => gen'.data = gen.data]_vars

\* A DynamoDB run for eu-west-1 is done and has executed its templates with
\* the region ams
C26_Witness ==
  /\ gen.phase = "done"
  /\ gen.config.Database.Type = DatabaseTypeDynamoDB
  /\ gen.config.Database.AWSRegion = <<"eu-west-1">>
  /\ gen.config.Framework = FrameworkTypeConnectRPC
  /\ gen.config.Deploy
  /\ Len(gen.rendered) > 10
  /\ gen.rendered[1].FlyRegion = "ams"

\* A permission as ls prints it
ModeString(perm) ==
  [ i \in 1 .. 9 |->
      LET bit == <<"S_IRUSR", "S_IWUSR", "S_IXUSR", "S_IRGRP", "S_IWGRP",
                   "S_IXGRP", "S_IROTH", "S_IWOTH", "S_IXOTH">>[i]
          letter == <<"r", "w", "x", "r", "w", "x", "r", "w", "x">>[i]
      IN IF bit \in perm THEN letter ELSE "-" ]

\* C27: every file written, rendered or copied, was written with the mode
\* rwxr-xr-x when its output path ends in .sh and with rw-r--r-- otherwise,
\* and its parent directory has been created.
C27_FileModeBySuffix ==
  /\ Len(gen.perms) = Len(gen.written)
  /\ \A i \in DOMAIN gen.written :
       /\ ModeString(gen.perms[i]) =
            (IF gen.written[i].outputPath.ext = ".sh"
               THEN <<"r", "w", "x", "r", "-", "x", "r", "-", "x">>
               ELSE <<"r", "w", "-", "r", "-", "-", "r", "-", "-">>)
       /\ gen.written[i].outputPath.dir \in gen.dirs

\* A run is done that has rendered scripts/check-deps.sh, copied
\* scripts/migrate.sh and written go.mod
C27_Witness ==
  /\ gen.phase = "done"
  /\ \E i, j, k \in DOMAIN gen.written :
       /\ gen.written[i].outputPath = Path("scripts", "check-deps", ".sh")
       /\ IsTemplate(gen.written[i])
       /\ gen.perms[i] = filePermExecutable
       /\ gen.written[j].outputPath = Path("scripts", "migrate", ".sh")
       /\ ~IsTemplate(gen.written[j])
       /\ gen.perms[j] = filePermExecutable
       /\ gen.written[k].outputPath = Path(".", "go", ".mod")
       /\ gen.perms[k] = filePermRegular

\* C28: as long as nothing has been typed the project-name, module-path and
\* output-directory buffers hold a default that is not empty, and a confirm
\* at ProjectName, ModulePath or OutputDir advances to the next step.
C28_PrefilledDefaults ==
  (running /\ edits = 0) =>
    /\ m.projectName # << >>
    /\ m.modulePath # << >>
    /\ m.outputDir # << >>
    /\ m.step \in {StepProjectName, StepModulePath, StepOutputDir} =>
         \A creds \in CredentialLookups :
           UpdateKey(m, "enter", creds).m.step = m.step + 1

\* C29: a confirm at AWSProfileSelection always advances to AWSAccessKeyID
\* and sets each of the three AWS buffers to the value of the credential
\* lookup when that value is not empty and leaves it as it was otherwise;
\* the configuration a generation task reads holds the buffers as they are
\* then, edits made after the lookup included.
C29_ProfilePrepopulation ==
  /\ [](m.step = StepAWSProfileSelection =>
          \A creds \in CredentialLookups :
            UpdateKey(m, "enter", creds).m.step = StepAWSAccessKeyID)
  /\ [][ (m.step = StepAWSProfileSelection /\ m'.step = StepAWSAccessKeyID) =>
           \E creds \in CredentialLookups :
             /\ m'.awsAccessKeyID = IF creds.accessKeyID # << >>
                                      THEN creds.accessKeyID
                                      ELSE m.awsAccessKeyID
             /\ m'.awsSecretKey = IF creds.secretKey # << >>
                                    THEN creds.secretKey ELSE m.awsSecretKey
             /\ m'.awsRegion = IF creds.region # << >>
                                 THEN creds.region ELSE m.awsRegion ]_vars
  /\ [][ \A t \in BagToSet(genTasks) :
           GenerateRead(t) =>
             \E u \in BagToSet(genTasks') :
               /\ u.phase = "generating"
               /\ u.atEnter = t.atEnter
               /\ u.cfg.Database.AWSAccessKeyID = m.awsAccessKeyID
               /\ u.cfg.Database.AWSSecretKey = m.awsSecretKey
               /\ u.cfg.Database.AWSRegion = m.awsRegion ]_vars

\* A generation task has read a configuration whose access key is the one
\* of the profile with a rune typed after it
C29_Witness ==
  \E t \in BagToSet(genTasks) :
    /\ t.phase = "generating"
    /\ t.cfg.Database.Type = DatabaseTypeDynamoDB
    /\ t.cfg.Database.AWSAccessKeyID = <<"AKIA", "a">>
    /\ t.cfg.Database.AWSSecretKey = <<"s3cr3t">>
    /\ t.cfg.Database.AWSRegion = <<"us-east-1">>

\* C30: the closure of Model.deploy looks for flyctl, then for fly only when
\* flyctl was not found, and uses the first one found; when neither is
\* found it starts no process and reports that the tool is not installed;
\* otherwise it starts the tool once, with the project name, in the output
\* directory, and reports success when the process succeeds and a failure
\* holding the captured output when it fails.
C30_DeployToolProbing ==
  /\ dep.probes \in {<< >>, <<"flyctl">>, <<"flyctl", "fly">>}
  /\ dep.flyCmd = "flyctl" => dep.probes = <<"flyctl">>
  /\ dep.flyCmd = "fly" => dep.probes = <<"flyctl", "fly">>
  /\ dep.phase # "returned" =>
       (dep.invoked = << >> /\ dep.msg = [type |-> "none"])
  /\ (dep.phase = "returned" /\ dep.flyCmd = "") =>
       /\ dep.probes = <<"flyctl", "fly">>
       /\ dep.invoked = << >>
       /\ dep.msg.type = "DeploymentCompleteMsg"
       /\ ~dep.msg.Success
       /\ dep.msg.Error = ErrToolNotFound
  /\ (dep.phase = "returned" /\ dep.flyCmd # "") =>
       /\ Len(dep.invoked) = 1
       /\ dep.invoked[1].args =
            <<dep.flyCmd, "launch", "--name", dep.projectName,
              "--copy-config", "--yes">>
       /\ dep.invoked[1].dir = dep.outputDir
       /\ dep.msg.type = "DeploymentCompleteMsg"
       /\ dep.msg.Success = dep.invoked[1].ok
       /\ dep.msg.Success => dep.msg.Error = NilErr
       /\ ~dep.msg.Success =>
            /\ IsPrefix(ErrDeployFailed, dep.msg.Error)
            /\ dep.msg.Error # ErrToolNotFound
            /\ SubSeq(dep.msg.Error,
                      Len(dep.msg.Error) - Len(dep.invoked[1].output) + 1,
                      Len(dep.msg.Error)) = dep.invoked[1].output

\* flyctl was not found, fly was, and its launch in ./a failed with output
C30_Witness ==
  /\ dep.phase = "returned"
  /\ dep.probes = <<"flyctl", "fly">>
  /\ dep.flyCmd = "fly"
  /\ Len(dep.invoked) = 1
  /\ dep.invoked[1].dir = <<"./", "a">>
  /\ dep.invoked[1].output = <<"Error:", "name taken">>
  /\ ~dep.msg.Success

\* Printable characters a key event can carry at a text field.
PrintableKeys == TypedRunes \cup {"q"}

\* C31: at every text-field step, a key event carrying any printable
\* character inserts that character into the step's buffer, leaves the
\* current step unchanged and leaves the wizard running.
C31_LiveTextEditing ==
  (running /\ m.step \in TextSteps) =>
    \A k \in PrintableKeys, creds \in CredentialLookups :
      LET r == UpdateKey(m, k, creds)
      IN /\ r.cmd # "quit"
         /\ r.m.step = m.step
         /\ Buffer(r.m, m.step) = Append(Buffer(m, m.step), k)

\* The ProjectConfigs the wizard has assembled: cfg of every generate closure
\* that has read the model.
AssembledConfigs ==
  {t.cfg : t \in {u \in BagToSet(genTasks) : u.phase = "generating"}}

\* C32: in every ProjectConfig the wizard assembles, the awsAccessKeyId,
\* awsSecretKey and awsRegion fields are non-empty only when the database
\* type is DynamoDB.
C32_AWSFieldsOnlyForDynamoDB ==
  \A cfg \in AssembledConfigs :
    cfg.Database.Type # DatabaseTypeDynamoDB =>
      /\ cfg.Database.AWSAccessKeyID = << >>
      /\ cfg.Database.AWSSecretKey = << >>
      /\ cfg.Database.AWSRegion = << >>

\* C36: in every reachable wizard state generating is true if and only if
\* the current step is Generating, and deploying is true only if generating
\* is true.
C36_FlagStepConsistency ==
  /\ m.generating <=> (m.step = StepGenerating)
  /\ m.deploying => m.generating

\* The event loop processes the message that completes a run with success:
\* a generation that requests no deployment, or a successful deployment.
RunSucceeded ==
  \E p \in BagToSet(msgs) :
    \/ GenerationCompleteMsg(p) /\ ~p.msg.ShouldDeploy
    \/ DeploymentCompleteMsg(p) /\ p.msg.Success

\* C37: when the most recently completed generation (and deployment, if
\* requested) succeeded, the stored err is nil and the view shown after
\* completion is the success view and not the error view, whatever happened
\* in earlier runs of the same wizard.
C37_ErrReflectsLatestRun ==
  [][ RunSucceeded =>
        /\ m'.err = NilErr
        /\ View(m') = "GeneratedSuccessfully" ]_vars

\* The planned file the loop of generateFiles handles next
CurrentFile == gen.rules[gen.ri].files[gen.fi]

\* C35: evaluating a rule's predicate changes nothing on the filesystem:
\* every directory a turn of the generation loop creates is created by the
\* File Writer for the planned file of that turn, as the directory of its
\* output path.
C35_PlanningHasNoFilesystemEffects ==
  [][ gen.phase = "running" =>
        (gen'.dirs \ gen.dirs) \subseteq {CurrentFile.outputPath.dir} ]_vars

\* Enter is processed at ProjectName with a non-empty name: the only step
\* from ProjectName to ModulePath.
ProjectNameConfirmed == m.step = StepProjectName /\ m'.step = StepModulePath

\* The buffer holds prefix followed by a non-empty name: it was derived when
\* a name was confirmed.
DerivedFrom(prefix, buffer) == Len(buffer) >= 2 /\ buffer[1] = prefix

\* C38 as stated: when Enter is processed at ProjectName with a non-empty
\* name N2, the output-directory buffer becomes ./N2 if it was empty or
\* ./postservice and the module-path buffer becomes github.com/user/N2 if it
\* was empty or github.com/user/postservice, both being otherwise unchanged;
\* and buffers derived from an earlier name N keep the value derived from N.
C38_DerivedValuesKept ==
  [][ ProjectNameConfirmed =>
        /\ m'.outputDir =
             IF m.outputDir \in {<< >>, DefaultOutputDir}
               THEN <<"./">> \o m'.projectName ELSE m.outputDir
        /\ m'.modulePath =
             IF m.modulePath \in {<< >>, DefaultModulePath}
               THEN <<"github.com/user/">> \o m'.projectName
               ELSE m.modulePath
        /\ DerivedFrom("./", m.outputDir) => m'.outputDir = m.outputDir
        /\ DerivedFrom("github.com/user/", m.modulePath) =>
             m'.modulePath = m.modulePath ]_vars

\* C38, amended: as above, and buffers derived from an earlier name N keep
\* the value derived from N unless that value is ./postservice, respectively
\* github.com/user/postservice (N is postservice): such a buffer is derived
\* again from N2.
C38_DerivedDefaults ==
  [][ ProjectNameConfirmed =>
        /\ m'.outputDir =
             IF m.outputDir \in {<< >>, DefaultOutputDir}
               THEN <<"./">> \o m'.projectName ELSE m.outputDir
        /\ m'.modulePath =
             IF m.modulePath \in {<< >>, DefaultModulePath}
               THEN <<"github.com/user/">> \o m'.projectName
               ELSE m.modulePath
        /\ (DerivedFrom("./", m.outputDir) /\ m.outputDir # DefaultOutputDir)
             => m'.outputDir = m.outputDir
        /\ (DerivedFrom("github.com/user/", m.modulePath)
              /\ m.modulePath # DefaultModulePath)
             => m'.modulePath = m.modulePath
        /\ (m.outputDir = DefaultOutputDir) =>
             m'.outputDir = <<"./">> \o m'.projectName
        /\ (m.modulePath = DefaultModulePath) =>
             m'.modulePath = <<"github.com/user/">> \o m'.projectName ]_vars

\* The name a was confirmed, then, after going back, the name aa: both
\* buffers keep the values derived from a.
C38_Witness ==
  /\ m.step = StepModulePath
  /\ backs > 0
  /\ m.projectName = <<"a", "a">>
  /\ m.outputDir = <<"./", "a">>
  /\ m.modulePath = <<"github.com/user/", "a">>

\* The output paths of the plan of a configuration
PlanOutputs(config) == {f.outputPath : f \in Range(Plan(config))}

\* C34: in the direct mode the create command fails with an error and
\* never calls the generator if the project name is missing, if the module
\* path is missing, if the driver is not postgres or dynamodb, if the
\* framework is not chi or connectrpc, or if the output directory exists and
\* is non-empty; an omitted output directory defaults to the project name;
\* generation starts only after all these checks pass.
C34_FlagsValidatedBeforeGeneration ==
  cli.phase \in {"generating", "returned"} =>
    LET flags == cli.flags
        invalid == \/ flags.projectName = << >>
                   \/ flags.modulePath = << >>
                   \/ flags.driver \notin {"postgres", "dynamodb"}
                   \/ flags.framework \notin {"chi", "connectrpc"}
                   \/ cli.dirState = "nonEmptyDir"
    IN /\ invalid => (cli.phase = "returned" /\ cli.err # NilErr
                        /\ ~cli.generated)
       /\ cli.generated =>
            /\ ~invalid
            /\ cli.cfg.OutputDir = IF flags.outputDir = << >>
                                     THEN flags.projectName
                                     ELSE flags.outputDir

\* C33: in the interactive path the plan of every assembled configuration
\* contains the deployment files whatever the answer at DeploySelection, and
\* a deployment is launched when a generation has succeeded exactly if the
\* answer its message carries is yes; in the non-interactive path each
\* deployment file is in the plan exactly if the --deploy flag is set.
C33_DeploymentScaffolding ==
  /\ [](\A cfg \in AssembledConfigs :
          DeploymentOutputs \subseteq PlanOutputs(cfg))
  /\ [][ \A p \in BagToSet(msgs) :
           GenerationCompleteMsg(p) =>
             ((deployLaunched' = deployLaunched + 1) <=> p.msg.ShouldDeploy)
       ]_vars
  /\ [](cli.phase \in {"generating", "returned"} /\ cli.generated =>
          \A o \in DeploymentOutputs :
            o \in PlanOutputs(cli.cfg) <=> cli.flags.deploy)

\* The wizard has assembled a configuration while the answer at
\* DeploySelection is no, and fly.toml is in its plan.
C33_Witness ==
  /\ cli.phase = "tui"
  /\ ~GetChoice(m.deployConfirm)
  /\ \E cfg \in AssembledConfigs :
       Path(".", "fly", ".toml") \in PlanOutputs(cfg)

====
